---- MODULE Spec2Model ----
(***************************************************************************)
(* PolyWeather: the simulated position ledger (src/trading/paper_trader.py) *)
(* and the sizing / trading part of the monitoring loop (main.py).         *)
(*                                                                         *)
(* Numbers.  The code computes in binary floating point; the model uses    *)
(* fixed point.  Money is counted in units of 1/Unit cent, share counts in *)
(* units of 1/(100*Unit) share, entry prices in whole cents (the code      *)
(* passes int(price*100)) and snapshot prices in tenths of a cent, so that *)
(* the settlement thresholds 99.5 and 0.5 are the integers 995 and 5.      *)
(* A timestamp is the number of trade records written before it was taken *)
(* (a logical clock that ticks with every trade).  A market's city and     *)
(* option text are fixed per market and are represented by the market id.  *)
(***************************************************************************)
EXTENDS Integers, Sequences, FiniteSets, TLC

\* ---------------------------------------------------------------- bounds
MaxOpens == 2           \* cap on the number of positions ever opened

\* ------------------------------------------------------------- constants
RECURSIVE Pow5(_)
Pow5(n) == IF n = 0 THEN 1 ELSE 5 * Pow5(n - 1)

\* money units per cent: fine enough for the sizer's x0.8 of a clipped amount
\* to be exact as long as at most MaxOpens sized trades were recorded
Unit == Pow5(MaxOpens + 1)
Dollar == 100 * Unit                \* money units per dollar

\* PaperTrader(total_capital=12): small enough for the balance check to bind
TotalCapital == 12
Capitals == {TotalCapital * Dollar}

Markets == {"m1", "m2"}
Sides == {"YES", "NO"}
DefaultAmount == 5                  \* amount_usd default, in dollars
\* (price in cents, amount_usd) pairs passed to open_position
OpenInputs == {<<90, DefaultAmount * Dollar>>, <<0, 10 * Dollar>>}
SettleHigh == 995                   \* 99.5 cents, in tenths of a cent
SettleLow == 5                      \* 0.5 cents, in tenths of a cent
DefaultSnapPrice == 500             \* .get("price", 50), in tenths of a cent
NoPriceKey == -1                    \* a snapshot entry without a "price" key
SnapPrices == {5, 6, 996}           \* tenths of a cent
NoTime == -1                        \* an absent closed_at

VARIABLES
    initial_capital,    \* PaperTrader.initial_capital
    balance,            \* PaperTrader.balance
    positions,          \* PaperTrader.positions, in insertion order
    history,            \* PaperTrader.history
    trades,             \* PaperTrader.trades
    file,               \* the document at storage_path
    persisted,          \* history variable: the file as the last completed
                        \* _save_data left it
    up,                 \* the process is running
    call,               \* the last ledger call and its arguments
    ret,                \* what the last ledger call returned
    daily_spent,        \* the sizer's amount recorded today (record_trade)
    decision,           \* the last sizing: its inputs, amount_usd and risk_reason
    pushed_signals,     \* main's pushed_signals: markets with a range_85_95 key
    sized_today,        \* history variable: sum of the amounts sized today
    opened_today,       \* history variable: sum of the sized amounts opened today
    deb,                \* the last calculate_dynamic_weights call: inputs and result
    prob,               \* the last settlement distribution: inputs and table
    hfile,              \* data/daily_records.json: kind, document, mtime
    history_cache,      \* deb_algorithm._history_cache
    history_mtime,      \* deb_algorithm._history_mtime
    current_day,        \* datetime.now(), as a day number
    hcall,              \* the last history call, its arguments and result
    last_good,          \* history variable: the store as the last successful
                        \* load or save had it
    io,                 \* a save_history and a load_history of two processes on
                        \* the same file, step by step
    signal,             \* the last calculate_signal call: inputs and result
    rejections,         \* per market: the reason of the last zero-amount sizing
                        \* and the log lines written for it since it last changed
    book,               \* the last orderbook analysis of the range alert
    rel_volume,         \* the last relative-volume test: volumes and its result
    race                \* two processes in update_daily_record on one file

vars == <<initial_capital, balance, positions, history, trades, file, persisted, up, call, ret,
          daily_spent, decision, pushed_signals, sized_today, opened_today,
          deb, prob, hfile, history_cache, history_mtime, current_day, hcall,
          last_good, io, signal, rejections, book, rel_volume, race>>
ledger == <<balance, positions, history, trades>>
sizer == <<daily_spent, decision, pushed_signals, sized_today, opened_today, rejections>>
store == <<hfile, history_cache, history_mtime, current_day, hcall,
          last_good>>
analysis == <<deb, prob, hfile, history_cache, history_mtime, current_day, hcall,
          last_good, io, signal, book, rel_volume, race>>

\* ------------------------------------------------------------ arithmetic
\* round(): the integer nearest to n/d (d > 0), exact halves to the even one.
RoundHalfEven(n, d) ==
    LET f == n \div d
        r == n % d
    IN  IF 2 * r < d THEN f
        ELSE IF 2 * r > d THEN f + 1
        ELSE IF f % 2 = 0 THEN f ELSE f + 1

\* round(x, 2) of a money amount: whole cents.
RoundCents(x) == RoundHalfEven(x, Unit)

\* shares * (curr_price / 100.0), curr in tenths of a cent; the product is
\* split so that it stays inside the machine integers.
PositionValue(shares, curr) ==
    (shares \div 1000) * curr + ((shares % 1000) * curr) \div 1000

\* amount_usd / price_decimal if price_decimal > 0 else 0
SharesFor(amount, price) ==
    IF price > 0 THEN (amount * 100) \div price ELSE 0

\* round((pnl / cost) * 100, 2) if cost > 0 else 0, in hundredths of a percent
PnlPct(pnl, cost) ==
    IF cost > 0
    THEN 100 * ((pnl * 100) \div cost) + RoundHalfEven(100 * ((pnl * 100) % cost), cost)
    ELSE 0

\* ------------------------------------------------------------- documents
PidOf(pos) == <<pos.market_id, pos.side>>

HasPosition(ps, pid) == \E i \in 1..Len(ps) : PidOf(ps[i]) = pid

\* _load_data's answer when the file is missing or does not parse
FreshData(cap) == [positions |-> <<>>, history |-> <<>>, trades |-> <<>>, balance |-> cap]

\* the JSON object _save_data dumps: balance is written as round(balance, 2)
Document(ps, hs, ts, bal) ==
    [positions |-> ps, history |-> hs, trades |-> ts, balance |-> RoundCents(bal)]

MissingFile == [kind |-> "missing", doc |-> Document(<<>>, <<>>, <<>>, 0)]
FullFile(doc) == [kind |-> "full", doc |-> doc]

\* _save_data: open(path, "w") and json.dump of the whole ledger
SaveData(ps, hs, ts, bal) == FullFile(Document(ps, hs, ts, bal))

\* What the file holds when the process stops inside _save_data: open(path,
\* "w") has truncated it and json.dump has written the first k of the four
\* members "positions", "history", "trades", "balance" (k = 0: an empty file).
PartialFile(doc, k) ==
    [kind |-> "partial",
     doc |-> [positions |-> IF k >= 1 THEN doc.positions ELSE <<>>,
              history |-> IF k >= 2 THEN doc.history ELSE <<>>,
              trades |-> IF k >= 3 THEN doc.trades ELSE <<>>,
              balance |-> 0]]

InterruptedSaves(ps, hs, ts, bal) ==
    {PartialFile(Document(ps, hs, ts, bal), k) : k \in 0..3}

\* _load_data: the parsed document, or a fresh ledger if the file is missing
\* or json.load raises
LoadData(f, cap) ==
    IF f.kind = "full"
    THEN [f.doc EXCEPT !.balance = f.doc.balance * Unit]
    ELSE FreshData(cap)

\* a price snapshot maps some of the markets to their entry {"price": p}
SnapValues == SnapPrices \cup {NoPriceKey}
Snapshots == UNION {[S -> SnapValues] : S \in SUBSET Markets}
EmptySnap == [m \in {} |-> NoPriceKey]

NoCall == [op |-> "none", market_id |-> "", side |-> "", price |-> 0, amount |-> 0,
           snap |-> EmptySnap]

\* datetime.utcnow(), as a logical clock
Now == Len(trades)

\* the number of positions opened so far
Opened == Len(positions) + Len(history)

\* --------------------------------------------------------- position sizer
\* The sizer (risk_manager.calculate_position_size, record_trade) is called by
\* main.py but its code is not part of the sources; it is modelled from the
\* specification, section 4.5.  Hours are in tenths of an hour.
DailyBudget == 10                   \* the configured daily budget, in dollars
Budget == DailyBudget * Dollar

NearDeadline == 10                  \* 1 hour
ShortHorizon == 40                  \* 4 hours
MidHorizon == 120                   \* 12 hours

\* mutant of TimeDecay: the last hour is sized like the hours before it
TimeDecayNoCutoff(hours) ==
    IF hours <= ShortHorizon THEN 4 ELSE IF hours <= MidHorizon THEN 7 ELSE 10

\* the time-decay multiplier, in tenths
TimeDecay(hours) ==
    IF hours <= NearDeadline THEN 0
    ELSE IF hours <= ShortHorizon THEN 4
    ELSE IF hours <= MidHorizon THEN 7
    ELSE 10

\* mutant of ReasonTags: the deadline is not reported
ReasonTagsNoDeadline(hours, rel_high, remaining) ==
    (IF remaining <= 0 THEN {"DAILY_CAP_REACHED"} ELSE {})
    \cup (IF rel_high THEN {} ELSE {"LOW_RELATIVE_VOLUME"})

\* the reason tag: the conditions that cut the amount
ReasonTags(hours, rel_high, remaining) ==
    (IF hours <= NearDeadline THEN {"NEAR_DEADLINE"} ELSE {})
    \cup (IF remaining <= 0 THEN {"DAILY_CAP_REACHED"} ELSE {})
    \cup (IF rel_high THEN {} ELSE {"LOW_RELATIVE_VOLUME"})

\* size(): time decay, clip to the remaining budget, x0.8 on low relative
\* volume.  The specification gives no rule for the book depth.
CalculatePositionSize(base, depth, hours, rel_high, remaining) ==
    LET decayed == (base * TimeDecay(hours)) \div 10
        clipped == IF decayed <= remaining THEN decayed ELSE remaining
        amount == IF remaining <= 0 THEN 0
                  ELSE IF rel_high THEN clipped
                  ELSE (clipped * 4) \div 5
    IN  [base |-> base, depth |-> depth, hours |-> hours, rel_high |-> rel_high,
         remaining |-> remaining, amount |-> amount,
         reason |-> ReasonTags(hours, rel_high, remaining)]

NoDecision == CalculatePositionSize(0, 0, 0, TRUE, 0)

\* record_trade: the amount counts against the day
RecordTrade(spent, amount) == spent + amount

\* mutant of Recorded: the trade is never recorded
RecordedNever(spent, amount, success) == spent

\* main records the amount only if the open succeeded
Recorded(spent, amount, success) ==
    IF success THEN RecordTrade(spent, amount) ELSE spent

\* mutant of BasePosition: no probe size below the tiers
BasePositionNoProbe(trigger_price, weather_supports, high_volume) ==
    IF trigger_price >= 90 /\ weather_supports /\ high_volume THEN 10 * Dollar
    ELSE IF trigger_price >= 90 /\ weather_supports THEN 7 * Dollar
    ELSE IF trigger_price >= 92 THEN 5 * Dollar
    ELSE 0

\* base_pos by confidence tier
BasePosition(trigger_price, weather_supports, high_volume) ==
    IF trigger_price >= 90 /\ weather_supports /\ high_volume THEN 10 * Dollar
    ELSE IF trigger_price >= 90 /\ weather_supports THEN 7 * Dollar
    ELSE IF trigger_price >= 92 THEN 5 * Dollar
    ELSE 3 * Dollar

\* (trigger_price, weather_supports, high_volume), one per tier
Triggers == {<<85, FALSE, FALSE>>, <<92, FALSE, FALSE>>, <<90, TRUE, FALSE>>, <<90, TRUE, TRUE>>}
Hours == {-10, 5, 10, 11, 40, 41, 120, 121, 240}
Depths == {0, 50 * Dollar}
\* amounts already recorded when the sizer is asked
SpentValues == {0, 4 * Dollar, Budget - 60 * Unit, Budget}

\* ------------------------------------------------------- ensemble blend
\* deb_algorithm.calculate_dynamic_weights.  Temperatures are in tenths of a
\* degree, dates are day numbers, None is a value no temperature takes.
None == -9999
LookbackDays == 7
DefaultMae == 20                    \* 2.0 degrees
MaeEpsilon == 1                     \* 0.1 degrees
WeightDigits == 9                   \* weights are kept to 9 decimal places

Models == {"ECMWF", "GFS", "ICON"}

Abs(x) == IF x < 0 THEN -x ELSE x

RECURSIVE SumOver(_, _)
\* sum(): S is a set, f a function on it
SumOver(S, f) ==
    IF S = {} THEN 0
    ELSE LET x == CHOOSE y \in S : TRUE
         IN  f[x] + SumOver(S \ {x}, f)

RECURSIVE ProductOver(_, _)
ProductOver(S, f) ==
    IF S = {} THEN 1
    ELSE LET x == CHOOSE y \in S : TRUE
         IN  f[x] * ProductOver(S \ {x}, f)

RECURSIVE Pow10(_)
Pow10(n) == IF n = 0 THEN 1 ELSE 10 * Pow10(n - 1)

RECURSIVE FractionDigits(_, _, _)
\* the first k decimal places of r/t (0 <= r < t), as an integer
FractionDigits(r, t, k) ==
    IF k = 0 THEN 0
    ELSE ((10 * r) \div t) * Pow10(k - 1) + FractionDigits((10 * r) % t, t, k - 1)

\* a/t for 0 <= a <= t, in units of 10^-WeightDigits
Quotient(a, t) ==
    IF a = t THEN Pow10(WeightDigits) ELSE FractionDigits(a, t, WeightDigits)

\* round(x, 1) of x = n/d tenths (n >= 0, d > 0); a value that is halfway in
\* decimal goes up or down with its binary representation (tie)
RoundTenth(n, d, tie) ==
    LET f == n \div d
        r == n % d
    IN  IF 2 * r < d THEN f
        ELSE IF 2 * r > d THEN f + 1
        ELSE f + tie

\* the non-null current forecasts
ValidVals(current_forecasts) ==
    {m \in DOMAIN current_forecasts : current_forecasts[m] # None}

\* the days the scan counts: not today, actual present, the most recent
\* LookbackDays of them
ValidDays(city_data, today) ==
    {d \in DOMAIN city_data : d # today /\ city_data[d].actual_high # None}

\* mutant of Counted: today's record counts once it has an actual
CountedWithToday(city_data, today, d) == city_data[d].actual_high # None

\* the loop body reaches days_used += 1 for the date: neither `continue` is
\* taken
Counted(city_data, today, d) == d # today /\ city_data[d].actual_high # None

RECURSIVE ScanFrom(_, _, _, _, _)
\* for date_str in sorted_dates, from the dates still to visit: the dates
\* counted and the dates visited when the loop ends or breaks
ScanFrom(city_data, today, rest, used, scanned) ==
    IF rest = {} THEN [used |-> used, scanned |-> scanned]
    ELSE LET d == CHOOSE x \in rest : \A y \in rest : y <= x
         IN  IF ~Counted(city_data, today, d)
             THEN ScanFrom(city_data, today, rest \ {d}, used, scanned \cup {d})
             ELSE IF Cardinality(used) + 1 >= LookbackDays
             THEN [used |-> used \cup {d}, scanned |-> scanned \cup {d}]
             ELSE ScanFrom(city_data, today, rest \ {d}, used \cup {d},
                           scanned \cup {d})

Scan(city_data, today) == ScanFrom(city_data, today, DOMAIN city_data, {}, {})

UsedDays(city_data, today) == Scan(city_data, today).used

\* errors[model]: the days that give the model an error sample
ErrorDays(city_data, today, m) ==
    {d \in UsedDays(city_data, today) :
        m \in DOMAIN city_data[d].forecasts /\ city_data[d].forecasts[m] # None}

\* maes[model] as a fraction <<numerator, denominator>> of tenths
Mae(city_data, today, m) ==
    LET E == ErrorDays(city_data, today, m)
    IN  IF E # {}
        THEN <<SumOver(E, [d \in E |->
                   Abs(city_data[d].forecasts[m] - city_data[d].actual_high)]),
               Cardinality(E)>>
        ELSE <<DefaultMae, 1>>

\* mutant of InverseErrorModels: a model without a current value keeps its share
InverseErrorModelsAll(current_forecasts) == DOMAIN current_forecasts

\* the keys of inverse_errors: the models with a current value
InverseErrorModels(current_forecasts) == ValidVals(current_forecasts)

\* mutant of Weights: inv = 1 / mae, without the 0.1
WeightsNoEpsilon(city_data, today, current_forecasts) ==
    LET I == InverseErrorModels(current_forecasts)
        num == [m \in I |-> Mae(city_data, today, m)[2]]
        den == [m \in I |-> Mae(city_data, today, m)[1]]
        common == ProductOver(I, den)
        inv == [m \in I |-> num[m] * (common \div den[m])]
        total_inv == SumOver(I, inv)
    IN  [inv |-> inv, total_inv |-> total_inv,
         weights |-> [m \in ValidVals(current_forecasts) |-> Quotient(inv[m], total_inv)]]

\* the weights, each inv / total_inv with inv = 1 / (mae + 0.1)
Weights(city_data, today, current_forecasts) ==
    LET I == InverseErrorModels(current_forecasts)
        num == [m \in I |-> Mae(city_data, today, m)[2]]
        den == [m \in I |-> Mae(city_data, today, m)[1]
                             + MaeEpsilon * Mae(city_data, today, m)[2]]
        common == ProductOver(I, den)
        inv == [m \in I |-> num[m] * (common \div den[m])]
        total_inv == SumOver(I, inv)
    IN  [inv |-> inv, total_inv |-> total_inv,
         weights |-> [m \in ValidVals(current_forecasts) |-> Quotient(inv[m], total_inv)]]

\* the call: what it returns, with its inputs and the path it took
CalculateDynamicWeights(city_data, today, current_forecasts, tie) ==
    LET V == ValidVals(current_forecasts)
        sum == SumOver(V, [m \in V |-> current_forecasts[m]])
        days_used == Cardinality(UsedDays(city_data, today))
        W == Weights(city_data, today, current_forecasts)
        in == [city_data |-> city_data, today |-> today,
               current_forecasts |-> current_forecasts]
        scan == IF DOMAIN city_data = {} THEN [used |-> {}, scanned |-> {}]
                ELSE Scan(city_data, today)
        out(path, raised, value, days, weights) ==
            [in |-> in, path |-> path, raised |-> raised, blended_high |-> value,
             days_used |-> days, weights |-> weights, scanned |-> scan.scanned,
             samples |-> [m \in DOMAIN current_forecasts |->
                            IF DOMAIN city_data = {} THEN {}
                            ELSE ErrorDays(city_data, today, m)]]
    IN  IF DOMAIN city_data = {}
        THEN IF V = {}
             THEN out("no_models", FALSE, None, 0, <<>>)
             ELSE out("equal_no_history", FALSE, RoundTenth(sum, Cardinality(V), tie),
                      0, <<>>)
        ELSE IF days_used < 2
        THEN IF V = {}
             THEN out("equal_few_days", TRUE, None, days_used, <<>>)
             ELSE out("equal_few_days", FALSE, RoundTenth(sum, Cardinality(V), tie),
                      days_used, <<>>)
        ELSE IF W.total_inv = 0
        THEN out("weight_error", FALSE, None, days_used, <<>>)
        ELSE out("weighted", FALSE,
                 RoundTenth(SumOver(V, [m \in V |-> current_forecasts[m] * W.inv[m]]),
                            W.total_inv, tie),
                 days_used, W.weights)

NoBlend == CalculateDynamicWeights(<<>>, 0, [m \in Models |-> None], 0)

\* forecasts of the three models
ForecastValues == {None, 280, 305}
CurrentForecasts == [Models -> ForecastValues]

DayRecord(actual, ecmwf, gfs, icon) ==
    [actual_high |-> actual,
     forecasts |-> [m \in Models |-> IF m = "ECMWF" THEN ecmwf
                                    ELSE IF m = "GFS" THEN gfs ELSE icon]]

\* records of a past day: complete, a model missing, no actual yet, exact
\* forecasts, a new model only
PastRecords ==
    {DayRecord(300, 290, 320, 300), DayRecord(300, None, 310, 285),
     DayRecord(None, 290, 320, 300), DayRecord(310, 310, 310, None),
     DayRecord(295, None, None, None), DayRecord(290, 300, 280, None)}

BlendDays == 1 .. 3
BlendTodays == {2, 3}
CityHistories == UNION {[D -> PastRecords] : D \in SUBSET BlendDays}

\* ------------------------------------------- settlement probability model
\* The settlement distribution is not part of the sources; it is modelled
\* from the specification, section 4.3.  Only the rounding of the observed
\* maximum to its settlement value is code (bot_listener).  Temperatures are
\* in hundredths of a degree, probabilities in millionths.
Million == 1000000
SigmaFloor == 10                    \* 0.1 degrees
BucketSpan == 2
MinProbability == 10000             \* 1%
TopBuckets == 4
RisingShift == 30                   \* 0.3 degrees

\* absent ensemble stats
NoStats == [p10 |-> None, p50 |-> None, p90 |-> None]

\* the standard normal CDF at z = 0, 0.25, ..., 4.75, in millionths
PhiTable ==
    <<500000, 598706, 691462, 773373, 841345, 894350, 933193, 959941, 977250,
      987776, 993790, 997020, 998650, 999423, 999767, 999912, 999968, 999989,
      999997, 999999>>

\* the normal CDF at z = num/den (den > 0), z on the quarter grid
NormalCdf(num, den) ==
    LET q == (4 * Abs(num)) \div den
        p == IF q >= Len(PhiTable) THEN Million ELSE PhiTable[q + 1]
    IN  IF num >= 0 THEN p ELSE Million - p

\* sigma = (p90 - p10) / 2.56, floored at 0.1
Sigma(stats) ==
    LET s == ((stats.p90 - stats.p10) * 100) \div 256
    IN  IF s < SigmaFloor THEN SigmaFloor ELSE s

\* mu: 70% blended anchor, 30% ensemble median, then the real-time correction
Mu(stats, anchor, observed, trend) ==
    LET mu == (7 * anchor + 3 * stats.p50) \div 10
    IN  IF observed # None /\ observed > mu
        THEN IF trend = "rising" THEN observed + RisingShift
             ELSE IF trend = "falling" THEN observed
             ELSE mu
        ELSE mu

\* the settlement convention of the specification: exact halves round up
RoundHalfUp(x) == (x + 50) \div 100

\* settled = round(max_so_far): the built-in round, exact halves to the even
Settled(max_so_far) == RoundHalfEven(max_so_far, 100)

\* the buckets, their masses, the 1% cut, the renormalisation and the cap
SettlementDistribution(stats, anchor, observed, trend) ==
    IF stats = NoStats
    THEN [in |-> [stats |-> stats, anchor |-> anchor, observed |-> observed,
                  trend |-> trend],
          done |-> TRUE, mu |-> None, sigma |-> None, survivors |-> {}, table |-> <<>>]
    ELSE
    LET mu == Mu(stats, anchor, observed, trend)
        sigma == Sigma(stats)
        center == RoundHalfEven(mu, 100)
        buckets == {b \in (center - BucketSpan) .. (center + BucketSpan) :
                       observed = None \/ b >= Settled(observed)}
        mass == [b \in buckets |-> NormalCdf(100 * b + 50 - mu, sigma)
                                    - NormalCdf(100 * b - 50 - mu, sigma)]
        kept == {b \in buckets : mass[b] >= MinProbability}
        total == SumOver(kept, mass)
        renorm == [b \in kept |-> IF mass[b] = total THEN Million
                                   ELSE FractionDigits(mass[b], total, 6)]
        before(c, b) == renorm[c] > renorm[b] \/ (renorm[c] = renorm[b] /\ c < b)
        top == {b \in kept : Cardinality({c \in kept : before(c, b)}) < TopBuckets}
    IN  [in |-> [stats |-> stats, anchor |-> anchor, observed |-> observed,
                 trend |-> trend],
         done |-> TRUE, mu |-> mu, sigma |-> sigma, survivors |-> kept,
         table |-> [b \in top |-> renorm[b]]]

\* a call whose arguments are drawn and which has not returned
PendingDistribution(stats, anchor, observed, trend) ==
    [in |-> [stats |-> stats, anchor |-> anchor, observed |-> observed, trend |-> trend],
     done |-> FALSE, mu |-> None, sigma |-> None, survivors |-> {}, table |-> <<>>]

NoDistribution == SettlementDistribution(NoStats, 0, None, "flat")

\* p10/p50/p90: no spread, and sigma 0.5, 1 and 2 degrees
EnsembleStats ==
    {NoStats} \cup {[p10 |-> 2000 - w, p50 |-> m, p90 |-> 2000 + w] :
                    w \in {0, 64, 128, 256}, m \in {2000, 1930, 2050, 2400}}
\* blended anchors; with the medians they give mu = 20.0 or 20.5
Anchors == {2000, 2030, 2050, 1900}
ObservedMaxima == {None, 1820, 1950, 2020, 2050, 2150, 2300}
Trends == {"rising", "falling", "flat"}
\* inputs on the grid of the CDF table: mu a multiple of half a degree
OnGrid(stats, anchor, observed, trend) ==
    stats # NoStats => Mu(stats, anchor, observed, trend) % 50 = 0

\* ----------------------------------------------------- forecast history
\* deb_algorithm.load_history, save_history, update_daily_record.  A store
\* maps a city to a map from dates to records; a date is a day number.
RetentionDays == 14
MaxWrites == 3                      \* cap on the writes of the history file
FirstDay == 15
LastDay == 17                       \* the days the model runs through

Cities == {"c1", "c2"}
\* the days each city is recorded for
StoreDates == [c1 |-> {2, 16}, c2 |-> {1}]
EmptyStore == <<>>
\* what .get('forecasts') gives for a record without a "forecasts" key
NoForecasts == [none |-> None]
StoreForecasts == {[ECMWF |-> 300, GFS |-> 310], [ECMWF |-> 305, GFS |-> 310]}
StoreActuals == {None, 300}

\* data[city_name][date_str] = {}
EmptyRecord == [forecasts |-> NoForecasts, actual_high |-> None]

HasRecord(data, c, d) == c \in DOMAIN data /\ d \in DOMAIN data[c]

\* data with data[c][d] = rec, the city and the date created if missing
Put(data, c, d, rec) ==
    LET dates == IF c \in DOMAIN data THEN DOMAIN data[c] ELSE {}
    IN  [x \in DOMAIN data \cup {c} |->
            IF x = c
            THEN [y \in dates \cup {d} |-> IF y = d THEN rec ELSE data[c][y]]
            ELSE data[x]]

\* mutant of Prune: only dates strictly inside the window are kept
PruneInclusive(data, cutoff) ==
    [x \in DOMAIN data |->
        [y \in {z \in DOMAIN data[x] : z > cutoff} |-> data[x][y]]]

\* del data[city][d] for every city and every d < cutoff
Prune(data, cutoff) ==
    [x \in DOMAIN data |->
        [y \in {z \in DOMAIN data[x] : z >= cutoff} |-> data[x][y]]]

MissingHistory == [kind |-> "missing", doc |-> EmptyStore, mtime |-> 0]

\* load_history: the data it returns, the cache and mtime it leaves, whether
\* the data is the cache object itself (aliased) and whether the file was
\* read and parsed (read) or failed to parse (failed)
LoadHistory(f, cache, mtime) ==
    LET r(data, c, m, aliased, read, failed) ==
            [data |-> data, cache |-> c, mtime |-> m, aliased |-> aliased,
             read |-> read, failed |-> failed]
    IN  IF f.kind = "missing" THEN r(EmptyStore, cache, mtime, FALSE, FALSE, FALSE)
        ELSE IF f.mtime = mtime /\ cache # EmptyStore
        THEN r(cache, cache, mtime, TRUE, FALSE, FALSE)
        ELSE IF f.kind = "full" THEN r(f.doc, f.doc, f.mtime, TRUE, TRUE, FALSE)
        ELSE IF cache # EmptyStore THEN r(cache, cache, mtime, TRUE, FALSE, TRUE)
        ELSE r(EmptyStore, cache, mtime, FALSE, FALSE, TRUE)

NoHistoryCall ==
    [op |-> "none", city |-> "", date |-> 0, forecasts |-> NoForecasts, actual |-> None,
     result |-> EmptyStore, wrote |-> FALSE, failed |-> FALSE]

\* mutant of Unchanged: only the actual is compared
UnchangedActualOnly(old, forecasts, actual_high) == old.actual_high = actual_high

\* old_actual == actual_high and old forecasts == forecasts
Unchanged(old, forecasts, actual_high) ==
    old.actual_high = actual_high /\ old.forecasts = forecasts

\* ------------------------------------------- the history file, step by step
MaxSaves == 2                       \* cap on the saves of the writing process
DocChunks == 2                      \* the pieces json.dump writes a document in
NoVersion == -1                     \* no document: {} as a result, nothing read

\* the file holds the first len pieces of document ver; the reader's cache,
\* cached mtime, the mtime it sampled, what json.load read and what
\* load_history returned
InitFile ==
    [disk |-> [ver |-> 0, len |-> DocChunks, mtime |-> 0],
     held |-> {}, wpc |-> "idle", rpc |-> "idle",
     cache |-> NoVersion, mtime |-> NoVersion, current_mtime |-> NoVersion,
     seen |-> [ver |-> NoVersion, len |-> NoVersion], result |-> NoVersion]

\* ------------------------------------------------------------ the scorer
\* scores in millionths, weights in hundredths, the weighted sum in 1e-8 and
\* the returned final_score in 1e-4; prices in cents, sizes in dollars
RecentHours == 24                   \* volume_history[-24:]
VolumeThreshold == 2                \* volume_threshold, 2.0
LargeOrderThreshold == 1000         \* large_order_threshold
DepthLevels == 3                    \* orders[:3]
MaxSpread == 10                     \* spread <= 0.10
MinDepth == 50                      \* depth >= 50
RsiPeriod == 14
BollingerPeriod == 20
BollingerStdDev == 2
MomentumPeriod == 10
ScoreDigits == 4                    \* round(final_score, 4)

RECURSIVE SeqSum(_)
SeqSum(xs) == IF xs = <<>> THEN 0 ELSE Head(xs) + SeqSum(Tail(xs))

RECURSIVE SeqSumSq(_)
SeqSumSq(xs) == IF xs = <<>> THEN 0 ELSE Head(xs) * Head(xs) + SeqSumSq(Tail(xs))

\* xs[-k:]
LastOf(xs, k) == IF Len(xs) <= k THEN xs ELSE SubSeq(xs, Len(xs) - k + 1, Len(xs))

\* xs[:k]
FirstOf(xs, k) == IF Len(xs) <= k THEN xs ELSE SubSeq(xs, 1, k)

RECURSIVE IsqrtIn(_, _, _)
IsqrtIn(n, lo, hi) ==
    IF lo = hi THEN lo
    ELSE LET mid == (lo + hi + 1) \div 2
         IN  IF mid * mid <= n THEN IsqrtIn(n, mid, hi) ELSE IsqrtIn(n, lo, mid - 1)

\* the integer part of the square root of n
Isqrt(n) == IsqrtIn(n, 0, 46340)

Clamp(lo, hi, x) == IF x < lo THEN lo ELSE IF x > hi THEN hi ELSE x

\* VolumeAnalyzer.detect_volume_spike: the "score". With h historical
\* entries of sum S and sum of squares Q and the recent sum R,
\* std = sqrt(h*Q - S*S) / h and
\* z_score = (h*R - 24*S) / (24 * sqrt(h*Q - S*S)).
DetectVolumeSpike(volume_history) ==
    LET n == Len(volume_history)
        recent == LastOf(volume_history, RecentHours)
        historical == SubSeq(volume_history, 1, n - RecentHours)
        h == Len(historical)
        d == h * SeqSumSq(historical) - SeqSum(historical) * SeqSum(historical)
        num == IF d > 0 THEN h * SeqSum(recent) - RecentHours * SeqSum(historical) ELSE 0
        bound == VolumeThreshold * RecentHours
        \* z_score in thousandths
        z == IF d > 0 THEN (num * Million) \div (RecentHours * Isqrt(d * Million)) ELSE 0
    IN  IF n < RecentHours THEN 500000
        ELSE IF h = 0 THEN 500000
        ELSE IF num > 0 /\ num * num > bound * bound * d
        THEN IF 500000 + z * 100 < 900000 THEN 500000 + z * 100 ELSE 900000
        ELSE IF num < 0 /\ num * num > bound * bound * d THEN 300000
        ELSE 500000

\* tx.get("side", "").upper()
Upper(side) == IF side = "buy" THEN "BUY" ELSE IF side = "sell" THEN "SELL" ELSE side

RECURSIVE LargeTotal(_, _)
LargeTotal(transactions, side) ==
    IF transactions = <<>> THEN 0
    ELSE LET tx == Head(transactions)
         IN  (IF tx.size >= LargeOrderThreshold /\ Upper(tx.side) = side THEN tx.size ELSE 0)
             + LargeTotal(Tail(transactions), side)

\* VolumeAnalyzer.detect_large_orders: the "score"
DetectLargeOrders(transactions) ==
    LET total_large_buy == LargeTotal(transactions, "BUY")
        total_large_sell == LargeTotal(transactions, "SELL")
    IN  IF total_large_buy > total_large_sell * 2 THEN 800000
        ELSE IF total_large_sell > total_large_buy * 2 THEN 200000
        ELSE 500000

\* VolumeAnalyzer.analyze: the "combined_score"
VolumeAnalyze(volume_history, transactions) ==
    LET volume_signal == DetectVolumeSpike(volume_history)
        order_signal == IF transactions # <<>> THEN DetectLargeOrders(transactions)
                        ELSE 500000
    IN  (volume_signal * 6 + order_signal * 4) \div 10

RECURSIVE SizeSum(_)
SizeSum(orders) == IF orders = <<>> THEN 0 ELSE Head(orders).size + SizeSum(Tail(orders))

\* OrderbookAnalyzer.assess_liquidity: the depth
AssessLiquidity(orders) == SizeSum(FirstOf(orders, DepthLevels))

\* mutant of Analyze: the imbalance correction is applied to every book with
\* both sides, tradeable or not
AnalyzeUngated(orderbook) ==
    LET bids == orderbook.bids
        asks == orderbook.asks
        spread == Abs(asks[1].price - bids[1].price)
        ask_depth == AssessLiquidity(asks)
        bid_depth == AssessLiquidity(bids)
        is_tradeable == spread <= MaxSpread /\ (ask_depth >= MinDepth \/ bid_depth >= MinDepth)
        bid_volume == SizeSum(bids)
        ask_volume == SizeSum(asks)
        high == ask_volume > 0 /\ 2 * bid_volume > 5 * ask_volume
        low == ask_volume = 0 \/ 5 * bid_volume < 2 * ask_volume
    IN  IF bids = <<>> \/ asks = <<>>
        THEN [signal |-> "NEUTRAL", confidence |-> 0, tradeable |-> FALSE, spread |-> 100,
              ask_depth |-> 0, bid_depth |-> 0]
        ELSE [signal |-> IF high THEN "BULLISH" ELSE IF low THEN "BEARISH" ELSE "NEUTRAL",
              confidence |-> IF high \/ low THEN 750000 ELSE 500000,
              tradeable |-> is_tradeable, spread |-> spread,
              ask_depth |-> ask_depth, bid_depth |-> bid_depth]

\* OrderbookAnalyzer.analyze: the result, its spread in cents, its depths in
\* dollars and its confidence in millionths; a result without depth keys
\* reads as depth 0
Analyze(orderbook) ==
    LET bids == orderbook.bids
        asks == orderbook.asks
        spread == Abs(asks[1].price - bids[1].price)
        ask_depth == AssessLiquidity(asks)
        bid_depth == AssessLiquidity(bids)
        is_tradeable == spread <= MaxSpread /\ (ask_depth >= MinDepth \/ bid_depth >= MinDepth)
        bid_volume == SizeSum(bids)
        ask_volume == SizeSum(asks)
        \* imbalance > 2.5, imbalance < 0.4
        high == ask_volume > 0 /\ 2 * bid_volume > 5 * ask_volume
        low == ask_volume = 0 \/ 5 * bid_volume < 2 * ask_volume
    IN  IF bids = <<>> \/ asks = <<>>
        THEN [signal |-> "NEUTRAL", confidence |-> 0, tradeable |-> FALSE, spread |-> 100,
              ask_depth |-> 0, bid_depth |-> 0]
        ELSE [signal |-> IF ~is_tradeable THEN "NEUTRAL"
                         ELSE IF high THEN "BULLISH"
                         ELSE IF low THEN "BEARISH" ELSE "NEUTRAL",
              confidence |-> IF ~is_tradeable THEN 100000
                             ELSE IF high \/ low THEN 750000 ELSE 500000,
              tradeable |-> is_tradeable, spread |-> spread,
              ask_depth |-> ask_depth, bid_depth |-> bid_depth]

\* analyze_orderbook(orderbook).get("confidence", 0.5)
AnalyzeOrderbook(orderbook) == Analyze(orderbook).confidence

\* np.diff(prices)
Deltas(prices) == [i \in 1..(Len(prices) - 1) |-> prices[i + 1] - prices[i]]

RECURSIVE GainSum(_)
GainSum(ds) == IF ds = <<>> THEN 0 ELSE (IF Head(ds) > 0 THEN Head(ds) ELSE 0) + GainSum(Tail(ds))

RECURSIVE LossSum(_)
LossSum(ds) == IF ds = <<>> THEN 0 ELSE (IF Head(ds) < 0 THEN -Head(ds) ELSE 0) + LossSum(Tail(ds))

\* TechnicalIndicators.calculate_rsi, as the fraction num/den:
\* 100 - 100 / (1 + avg_gain / avg_loss) = 100 * gain / (gain + loss)
CalculateRsi(prices) ==
    LET ds == LastOf(Deltas(prices), RsiPeriod)
    IN  IF Len(prices) < RsiPeriod + 1 THEN [num |-> 50, den |-> 1]
        ELSE IF LossSum(ds) = 0 THEN [num |-> 100, den |-> 1]
        ELSE [num |-> 100 * GainSum(ds), den |-> GainSum(ds) + LossSum(ds)]

\* TechnicalIndicators.calculate_bollinger_bands and the band test of
\* get_signal: with S and Q the sum and sum of squares of the last 20 prices,
\* middle = S/20 and std = sqrt(20*Q - S*S)/20
BollingerScore(prices) ==
    LET ps == LastOf(prices, BollingerPeriod)
        n == BollingerPeriod
        S == SeqSum(ps)
        d == n * SeqSumSq(ps) - S * S
        off == n * prices[Len(prices)] - S
        k == BollingerStdDev
    IN  IF Len(prices) < BollingerPeriod THEN 500000
        ELSE IF S = 0 /\ d = 0 THEN 500000
        ELSE IF off > 0 /\ off * off > k * k * d THEN 700000
        ELSE IF off < 0 /\ off * off > k * k * d THEN 300000
        ELSE 500000

\* TechnicalIndicators.calculate_momentum, in millionths
CalculateMomentum(prices) ==
    LET current == prices[Len(prices)]
        past == prices[Len(prices) - MomentumPeriod]
    IN  IF Len(prices) < MomentumPeriod + 1 THEN 0
        ELSE IF past = 0 THEN 0
        ELSE ((current - past) * Million) \div past

\* TechnicalIndicators.get_signal: the "combined_score"
GetSignal(prices) ==
    LET rsi == CalculateRsi(prices)
        rsi_score == IF rsi.num > 70 * rsi.den THEN 300000
                     ELSE IF rsi.num < 30 * rsi.den THEN 800000
                     ELSE 500000
        bb_score == BollingerScore(prices)
        momentum == CalculateMomentum(prices)
    IN  Clamp(0, Million, (rsi_score * 5 + bb_score * 3 + (500000 + momentum * 2) * 2) \div 10)

\* DecisionEngine._get_recommendation, the score in 1e-8
GetRecommendation(score) ==
    IF score > 80 * Million THEN "STRONG_BUY"
    ELSE IF score > 65 * Million THEN "BUY"
    ELSE IF score > 50 * Million THEN "WEAK_BUY"
    ELSE IF score > 35 * Million THEN "HOLD"
    ELSE IF score > 20 * Million THEN "WEAK_SELL"
    ELSE "NO_ACTION"

DefaultWeights ==
    [statistical_prediction |-> 50, data_source_consensus |-> 15,
     market_volume_signal |-> 15, orderbook_analysis |-> 10,
     technical_indicators |-> 5, onchain_whale_signal |-> 5]

NoInputs ==
    [weights |-> DefaultWeights, confidence |-> 0, weather_consensus |-> "none",
     volume_history |-> <<>>, transactions |-> <<>>,
     orderbook |-> [bids |-> <<>>, asks |-> <<>>], price_history |-> <<>>,
     whale_activity |-> "none"]

NoScores ==
    [statistical |-> 0, consensus |-> 0, volume |-> 0, orderbook |-> 0, technical |-> 0,
     whale |-> 0]

NoSignal ==
    [in |-> NoInputs, done |-> FALSE, final_score |-> 0, recommendation |-> "",
     factor_scores |-> NoScores]

\* DecisionEngine.calculate_signal
CalculateSignal(in) ==
    LET scores ==
            [statistical |-> in.confidence,
             consensus |-> IF in.weather_consensus = "none" THEN 500000
                           ELSE IF in.weather_consensus = "agree" THEN Million
                           ELSE 300000,
             volume |-> VolumeAnalyze(in.volume_history, in.transactions),
             orderbook |-> AnalyzeOrderbook(in.orderbook),
             technical |-> IF in.price_history # <<>> THEN GetSignal(in.price_history)
                           ELSE 500000,
             whale |-> IF in.whale_activity = "none" THEN 500000
                       ELSE IF in.whale_activity = "bullish" THEN 800000
                       ELSE 200000]
        final_score ==
            scores.statistical * in.weights.statistical_prediction +
            scores.consensus * in.weights.data_source_consensus +
            scores.volume * in.weights.market_volume_signal +
            scores.orderbook * in.weights.orderbook_analysis +
            scores.technical * in.weights.technical_indicators +
            scores.whale * in.weights.onchain_whale_signal
    IN  [in |-> in, done |-> TRUE,
         final_score |-> RoundHalfEven(final_score, Pow10(8 - ScoreDigits)),
         recommendation |-> GetRecommendation(final_score),
         factor_scores |-> scores]

\* the inputs of the scorer
Repeat(x, n) == [i \in 1..n |-> x]
Ramp(from, step, n) == [i \in 1..n |-> from + step * (i - 1)]

\* a configured weight set: the first two weights raised, the others left
RaisedWeights ==
    [DefaultWeights EXCEPT !.statistical_prediction = 60, !.data_source_consensus = 20]
WeightSets == {DefaultWeights, RaisedWeights}
Confidences == {500000, 700000, 950040, Million}
Consensuses == {"none", "agree", "disagree"}
VolumeHistories ==
    {<<>>, Repeat(3, RecentHours), <<2, 4>> \o Repeat(3, RecentHours),
     <<2, 4>> \o Repeat(6, RecentHours), <<2, 4>> \o Repeat(9, RecentHours),
     <<4, 4>> \o Repeat(9, RecentHours), <<8, 10>> \o Repeat(1, RecentHours)}
Transactions ==
    {<<>>, <<[size |-> 1500, side |-> "buy"]>>,
     <<[size |-> 1500, side |-> "SELL"], [size |-> 999, side |-> "BUY"]>>,
     <<[size |-> 2000, side |-> "BUY"], [size |-> 1000, side |-> "SELL"]>>}
Orderbooks ==
    {[bids |-> <<>>, asks |-> <<>>],
     [bids |-> <<[price |-> 50, size |-> 100]>>, asks |-> <<>>],
     [bids |-> <<[price |-> 50, size |-> 100]>>, asks |-> <<[price |-> 55, size |-> 100]>>],
     [bids |-> <<[price |-> 50, size |-> 300]>>, asks |-> <<[price |-> 55, size |-> 100]>>],
     [bids |-> <<[price |-> 50, size |-> 300]>>, asks |-> <<[price |-> 70, size |-> 100]>>],
     [bids |-> <<[price |-> 50, size |-> 10], [price |-> 49, size |-> 10],
                 [price |-> 48, size |-> 10], [price |-> 47, size |-> 40]>>,
      asks |-> <<[price |-> 55, size |-> 20]>>]}
PriceHistories ==
    {<<>>, <<90>>, Repeat(90, 21), Repeat(0, 21), Ramp(50, 2, 21), Ramp(90, -2, 21),
     Repeat(50, 20) \o <<60>>, Repeat(1, 20) \o <<99>>, Repeat(99, 20) \o <<1>>}
WhaleActivities == {"none", "bullish", "bearish"}

\* ------------------------------------------------- zero-amount rejections
MaxSkipLogs == 2                    \* cap on the log lines counted per market

NoRejection == [reason |-> {}, logs |-> 0]
NoRejections == [m \in Markets |-> NoRejection]

\* logger.info("Skipping alert for ...: risk_reason"): one more line for the
\* same reason, the first line for a new one
SkipLogged(last, reason) ==
    IF last.reason = reason THEN [last EXCEPT !.logs = @ + 1]
    ELSE [reason |-> reason, logs |-> 1]

NoBook ==
    [in |-> [has_data |-> FALSE, orderbook |-> [bids |-> <<>>, asks |-> <<>>],
             trigger_side |-> "Buy Yes", is_categorical |-> FALSE],
     done |-> FALSE, analysis |-> [signal |-> "", confidence |-> 0, tradeable |-> FALSE,
                                  spread |-> 0, ask_depth |-> 0, bid_depth |-> 0],
     depth |-> 0, skipped |-> FALSE]
NoRelVolume ==
    [in |-> [market_vol |-> 0, total_daily_vol |-> 0, trig |-> <<85, FALSE, FALSE>>,
             hours |-> 0],
     done |-> FALSE, is_rel_high_vol |-> FALSE]

\* ------------------------------------------- two processes, one history file
\* Two processes call update_daily_record on the same daily_records.json, each
\* with its own _history_cache and _history_mtime.  A document is the set of
\* its (city, date) keys, every key holding the record its writer gave it; all
\* dates are inside the retention window.  mtime counts the writes to the file.
Procs == {"p1", "p2"}
RaceKey == [p1 |-> "k1", p2 |-> "k2"]
OtherKey == "k0"
ColdMtime == 0                      \* _history_mtime = 0
FirstMtime == 1

ColdProc == [pc |-> "start", data |-> {}, cache |-> {}, mtime |-> ColdMtime]
\* a process that has loaded the document before
WarmProc(doc) == [ColdProc EXCEPT !.cache = doc, !.mtime = FirstMtime]

NoDisk == [exists |-> FALSE, doc |-> {}, complete |-> FALSE, mtime |-> ColdMtime]
DiskOf(doc) == [exists |-> TRUE, doc |-> doc, complete |-> TRUE, mtime |-> FirstMtime]

InitRace == [disk |-> NoDisk, lock |-> "none", proc |-> [p \in Procs |-> ColdProc]]

\* the documents on disk at the start
RaceDocs == {{}, {OtherKey}, {"k1"}, {OtherKey, "k2"}}

RaceInits ==
    {InitRace}
    \cup UNION {{[disk |-> DiskOf(doc), lock |-> "none", proc |-> pr] :
                     pr \in [Procs -> {ColdProc, WarmProc(doc)}]} : doc \in RaceDocs}

\* load_history and the in-memory part of update_daily_record: the data the
\* process goes on with.  The shared lock waits for an exclusive one; a file
\* that does not parse gives the cache.  The returned dict is the cache
\* itself unless it is a fresh {}.
ProcLoad(p) ==
    LET me == race.proc[p]
        disk == race.disk
        cached == disk.mtime = me.mtime /\ me.cache # {}
        reads == disk.exists /\ ~cached
        loaded == IF ~disk.exists THEN {}
                  ELSE IF cached THEN me.cache
                  ELSE IF disk.complete THEN disk.doc
                  ELSE me.cache
        data == loaded \cup {RaceKey[p]}
        aliased == disk.exists /\ loaded # {}
    IN  /\ me.pc = "start"
        /\ reads => race.lock = "none"
        /\ race' = [race EXCEPT
              !.proc[p] =
                 [pc |-> IF RaceKey[p] \in loaded THEN "done" ELSE "save",
                  data |-> data,
                  cache |-> IF aliased THEN data
                            ELSE IF reads /\ disk.complete THEN disk.doc
                            ELSE me.cache,
                  mtime |-> IF reads /\ disk.complete THEN disk.mtime ELSE me.mtime]]

\* save_history: _history_cache = data; open(filepath, 'w') truncates the file
ProcOpen(p) ==
    /\ race.proc[p].pc = "save"
    /\ race' = [race EXCEPT
          !.proc[p].pc = "opened",
          !.proc[p].cache = race.proc[p].data,
          !.disk = [exists |-> TRUE, doc |-> {}, complete |-> FALSE,
                       mtime |-> race.disk.mtime + 1]]

\* fcntl.flock(f, fcntl.LOCK_EX)
ProcLock(p) ==
    /\ race.proc[p].pc = "opened"
    /\ race.lock = "none"
    /\ race' = [race EXCEPT !.proc[p].pc = "locked", !.lock = p]

\* json.dump(data, f): the document of this process replaces the content
ProcDump(p) ==
    /\ race.proc[p].pc = "locked"
    /\ race' = [race EXCEPT
          !.proc[p].pc = "dumped",
          !.disk = [exists |-> TRUE, doc |-> race.proc[p].data, complete |-> TRUE,
                       mtime |-> race.disk.mtime + 1]]

\* fcntl.flock(f, fcntl.LOCK_UN), close, _history_mtime = os.path.getmtime
ProcUnlock(p) ==
    /\ race.proc[p].pc = "dumped"
    /\ race' = [race EXCEPT
          !.proc[p].pc = "done",
          !.proc[p].mtime = race.disk.mtime,
          !.lock = "none"]

InitAnalysis ==
    /\ deb = NoBlend
    /\ prob = NoDistribution
    /\ hfile = MissingHistory
    /\ history_cache = EmptyStore
    /\ history_mtime = 0
    /\ current_day = FirstDay
    /\ hcall = NoHistoryCall
    /\ last_good = EmptyStore
    /\ io = InitFile
    /\ signal = NoSignal
    /\ rejections = NoRejections
    /\ book = NoBook
    /\ rel_volume = NoRelVolume
    /\ race = InitRace

\* ------------------------------------------------------------------ init
Init ==
    /\ initial_capital \in Capitals
    /\ file = MissingFile
    /\ persisted = MissingFile
    /\ balance = LoadData(file, initial_capital).balance
    /\ positions = LoadData(file, initial_capital).positions
    /\ history = LoadData(file, initial_capital).history
    /\ trades = LoadData(file, initial_capital).trades
    /\ up = TRUE
    /\ call = NoCall
    /\ ret = [success |-> TRUE, report |-> <<>>]
    /\ daily_spent = 0
    /\ decision = NoDecision
    /\ pushed_signals = {}
    /\ sized_today = 0
    /\ opened_today = 0
    /\ InitAnalysis

\* ------------------------------------------------------- open_position
NewPosition(m, side, price, amount, t) ==
    [market_id |-> m, side |-> side, entry_price |-> price,
     shares |-> SharesFor(amount, price), cost_usd |-> amount,
     current_price |-> price * 10, pnl_usd |-> 0, pnl_pct |-> 0,
     status |-> "OPEN", opened_at |-> t, closed_at |-> NoTime]

BuyTrade(pos) ==
    [type |-> "BUY", option |-> pos.market_id, side |-> pos.side,
     price |-> pos.entry_price * 10, amount |-> pos.cost_usd, time |-> pos.opened_at]

\* mutants of OpenRefused: one of the two checks is missing
OpenRefusedBalanceOnly(m, side, amount) == balance < amount

OpenRefusedDuplicateOnly(m, side, amount) == HasPosition(positions, <<m, side>>)

\* open_position returns False before touching anything
OpenRefused(m, side, amount) ==
    \/ balance < amount
    \/ HasPosition(positions, <<m, side>>)

OpenPosition(m, side, price, amount) ==
    /\ up
    /\ call' = [NoCall EXCEPT !.op = "open_position", !.market_id = m, !.side = side,
                              !.price = price, !.amount = amount]
    /\ IF OpenRefused(m, side, amount)
       THEN /\ ret' = [success |-> FALSE, report |-> <<>>]
            /\ UNCHANGED <<balance, positions, history, trades, file, persisted>>
       ELSE /\ Opened < MaxOpens
            /\ positions' = Append(positions, NewPosition(m, side, price, amount, Now))
            /\ balance' = balance - amount
            /\ trades' = Append(trades, BuyTrade(NewPosition(m, side, price, amount, Now)))
            /\ history' = history
            /\ file' = SaveData(positions', history', trades', balance')
            /\ persisted' = file'
            /\ ret' = [success |-> TRUE, report |-> <<>>]
    /\ UNCHANGED <<initial_capital, up>>

\* ------------------------------------------------------------ update_pnl
\* mutant of SideAdjusted: the NO side is not inverted
SideAdjustedNoInvert(side, v) == IF v = NoPriceKey THEN DefaultSnapPrice ELSE v

\* current_prices[m_id].get("price", 50); 100 - price for the NO side
SideAdjusted(side, v) ==
    LET p == IF v = NoPriceKey THEN DefaultSnapPrice ELSE v
    IN  IF side = "NO" THEN 1000 - p ELSE p

\* mutant of Settles: the thresholds are 99 and 1
SettlesWholeCents(curr) == curr >= 990 \/ curr <= 10

\* curr_price >= 99.5 or curr_price <= 0.5
Settles(curr) == curr >= SettleHigh \/ curr <= SettleLow

\* the loop body looks at a position: it is OPEN and its market is quoted
Quoted(pos, snap) == pos.status = "OPEN" /\ pos.market_id \in DOMAIN snap

Finished(pos, snap) ==
    Quoted(pos, snap) /\ Settles(SideAdjusted(pos.side, snap[pos.market_id]))

\* the position after the loop body of update_pnl
MarkPosition(pos, snap, t) ==
    IF Quoted(pos, snap)
    THEN LET curr == SideAdjusted(pos.side, snap[pos.market_id])
             pnl == PositionValue(pos.shares, curr) - pos.cost_usd
             marked == [pos EXCEPT !.current_price = curr,
                                   !.pnl_usd = RoundCents(pnl),
                                   !.pnl_pct = PnlPct(pnl, pos.cost_usd)]
         IN  IF Settles(curr)
             THEN [marked EXCEPT !.status = "CLOSED", !.closed_at = t]
             ELSE marked
    ELSE pos

SellTrade(pos) ==
    [type |-> "SELL", option |-> pos.market_id, side |-> pos.side,
     price |-> pos.current_price,
     amount |-> RoundCents(PositionValue(pos.shares, pos.current_price)),
     time |-> pos.closed_at]

\* the positions of ps, marked, that the call closes (finished_ids, in order)
RECURSIVE ClosedNow(_, _, _)
ClosedNow(ps, snap, t) ==
    IF ps = <<>> THEN <<>>
    ELSE (IF Finished(Head(ps), snap) THEN <<MarkPosition(Head(ps), snap, t)>> ELSE <<>>)
         \o ClosedNow(Tail(ps), snap, t)

\* mutant of KeptOpen: the closed positions are not removed from the open map
KeptOpenAll(ps, snap, t) == [i \in 1 .. Len(ps) |-> MarkPosition(ps[i], snap, t)]

\* the positions that stay in the open map, marked
RECURSIVE KeptOpen(_, _, _)
KeptOpen(ps, snap, t) ==
    IF ps = <<>> THEN <<>>
    ELSE (IF Finished(Head(ps), snap) THEN <<>> ELSE <<MarkPosition(Head(ps), snap, t)>>)
         \o KeptOpen(Tail(ps), snap, t)

\* updated_report: the quoted positions that did not settle
RECURSIVE Report(_, _, _)
Report(ps, snap, t) ==
    IF ps = <<>> THEN <<>>
    ELSE (IF Quoted(Head(ps), snap) /\ ~Finished(Head(ps), snap)
          THEN <<MarkPosition(Head(ps), snap, t)>> ELSE <<>>)
         \o Report(Tail(ps), snap, t)

\* mutant of SumValues: a close gives back the cost, not the value
RECURSIVE SumCosts(_)
SumCosts(ps) == IF ps = <<>> THEN 0 ELSE Head(ps).cost_usd + SumCosts(Tail(ps))

\* self.balance += value, over the positions the call closes
RECURSIVE SumValues(_)
SumValues(ps) ==
    IF ps = <<>> THEN 0
    ELSE PositionValue(Head(ps).shares, Head(ps).current_price) + SumValues(Tail(ps))

RECURSIVE SellTrades(_)
SellTrades(ps) ==
    IF ps = <<>> THEN <<>> ELSE <<SellTrade(Head(ps))>> \o SellTrades(Tail(ps))

UpdatePnl(snap) ==
    /\ up
    /\ call' = [NoCall EXCEPT !.op = "update_pnl", !.snap = snap]
    /\ balance' = balance + SumValues(ClosedNow(positions, snap, Now))
    /\ history' = history \o ClosedNow(positions, snap, Now)
    /\ trades' = trades \o SellTrades(ClosedNow(positions, snap, Now))
    /\ positions' = KeptOpen(positions, snap, Now)
    /\ file' = SaveData(positions', history', trades', balance')
    /\ persisted' = file'
    /\ ret' = [success |-> TRUE, report |-> Report(positions, snap, Now)]
    /\ UNCHANGED <<initial_capital, up>>

\* ----------------------------------------------- interruption and restart
\* the process is stopped between two ledger calls
Crash ==
    /\ up
    /\ up' = FALSE
    /\ UNCHANGED <<initial_capital, balance, positions, history, trades, file, persisted,
                   call, ret>>
    /\ UNCHANGED sizer
    /\ UNCHANGED analysis

\* the process is stopped inside the _save_data of a successful open_position
OpenPositionInterrupted(m, side, price, amount) ==
    /\ up
    /\ ~OpenRefused(m, side, amount)
    /\ Opened < MaxOpens
    /\ call' = [NoCall EXCEPT !.op = "open_position", !.market_id = m, !.side = side,
                              !.price = price, !.amount = amount]
    /\ positions' = Append(positions, NewPosition(m, side, price, amount, Now))
    /\ balance' = balance - amount
    /\ trades' = Append(trades, BuyTrade(NewPosition(m, side, price, amount, Now)))
    /\ history' = history
    /\ file' \in InterruptedSaves(positions', history', trades', balance')
    /\ up' = FALSE
    /\ UNCHANGED <<initial_capital, persisted, ret>>
    /\ UNCHANGED sizer
    /\ UNCHANGED analysis

\* the process is stopped inside the _save_data of update_pnl
UpdatePnlInterrupted(snap) ==
    /\ up
    /\ call' = [NoCall EXCEPT !.op = "update_pnl", !.snap = snap]
    /\ balance' = balance + SumValues(ClosedNow(positions, snap, Now))
    /\ history' = history \o ClosedNow(positions, snap, Now)
    /\ trades' = trades \o SellTrades(ClosedNow(positions, snap, Now))
    /\ positions' = KeptOpen(positions, snap, Now)
    /\ file' \in InterruptedSaves(positions', history', trades', balance')
    /\ up' = FALSE
    /\ UNCHANGED <<initial_capital, persisted, ret>>
    /\ UNCHANGED sizer
    /\ UNCHANGED analysis

\* the next start: PaperTrader.__init__ reads the file
Restart ==
    /\ ~up
    /\ up' = TRUE
    /\ positions' = LoadData(file, initial_capital).positions
    /\ history' = LoadData(file, initial_capital).history
    /\ trades' = LoadData(file, initial_capital).trades
    /\ balance' = LoadData(file, initial_capital).balance
    /\ call' = NoCall
    /\ ret' = [success |-> TRUE, report |-> <<>>]
    /\ UNCHANGED <<initial_capital, file, persisted>>
    /\ UNCHANGED sizer
    /\ UNCHANGED analysis

\* ------------------------------------------------------------- main loop
\* a call of paper_trader.open_position
Open(m, side, price, amount) ==
    /\ OpenPosition(m, side, price, amount)
    /\ UNCHANGED sizer
    /\ UNCHANGED analysis

\* the end of a city's pass: paper_trader.update_pnl(price_snapshot)
MarkToMarket(snap) ==
    /\ UpdatePnl(snap)
    /\ UNCHANGED sizer
    /\ UNCHANGED analysis

\* the range alert of one market.  The sizer is asked for an amount; a positive
\* amount is opened and, if the open succeeded, recorded against the day, and
\* the alert key is stored; a zero amount is logged and the market skipped.
SizedOpen(m, side, trig, depth, hours, rel_high) ==
    /\ up
    /\ m \notin pushed_signals
    /\ decision' = CalculatePositionSize(BasePosition(trig[1], trig[2], trig[3]), depth,
                                        hours, rel_high, Budget - daily_spent)
    /\ sized_today' = sized_today + decision'.amount
    /\ IF decision'.amount > 0
       THEN /\ OpenPosition(m, side, trig[1], decision'.amount)
            /\ daily_spent' = Recorded(daily_spent, decision'.amount, ret'.success)
            /\ opened_today' = IF ret'.success THEN opened_today + call'.amount
                                                ELSE opened_today
            /\ pushed_signals' = pushed_signals \cup {m}
            /\ rejections' = [rejections EXCEPT ![m] = NoRejection]
       ELSE /\ rejections[m].logs < MaxSkipLogs
            /\ rejections' = [rejections EXCEPT ![m] =
                                 SkipLogged(rejections[m], decision'.reason)]
            /\ UNCHANGED <<initial_capital, balance, positions, history, trades, file,
                           persisted, up, call, ret, daily_spent, opened_today,
                           pushed_signals>>
    /\ UNCHANGED analysis

\* the sizer's day ends
NewDay ==
    /\ up
    /\ daily_spent' = 0
    /\ sized_today' = 0
    /\ opened_today' = 0
    /\ UNCHANGED <<initial_capital, balance, positions, history, trades, file, persisted,
                   up, call, ret, decision, pushed_signals, rejections>>
    /\ UNCHANGED analysis

\* the sizer alone: one sizing of any input
Decide(trig, depth, hours, rel_high) ==
    /\ decision' = CalculatePositionSize(BasePosition(trig[1], trig[2], trig[3]), depth,
                                        hours, rel_high, Budget - daily_spent)
    /\ UNCHANGED <<initial_capital, balance, positions, history, trades, file, persisted,
                   up, call, ret, daily_spent, pushed_signals, sized_today, opened_today,
                   rejections>>
    /\ UNCHANGED analysis

\* ------------------------------------------------------------------ spec
Next ==
    \/ \E m \in Markets, side \in Sides, inp \in OpenInputs :
          Open(m, side, inp[1], inp[2])
    \/ \E snap \in Snapshots : MarkToMarket(snap)

Spec == Init /\ [][Next]_vars

\* the ledger with interruptions and restarts
NextCrash ==
    \/ Next
    \/ Crash
    \/ \E m \in Markets, side \in Sides, inp \in OpenInputs :
          OpenPositionInterrupted(m, side, inp[1], inp[2])
    \/ \E snap \in Snapshots : UpdatePnlInterrupted(snap)
    \/ Restart

SpecCrash == Init /\ [][NextCrash]_vars

\* the sizer as a function of its inputs
InitSize ==
    /\ Init!1 /\ Init!2 /\ Init!3 /\ Init!4 /\ Init!5 /\ Init!6 /\ Init!7
    /\ Init!8 /\ Init!9 /\ Init!10
    /\ daily_spent \in SpentValues
    /\ decision = NoDecision
    /\ pushed_signals = {}
    /\ sized_today = 0
    /\ opened_today = 0
    /\ InitAnalysis

NextSize ==
    \E trig \in Triggers, depth \in Depths, hours \in Hours, rel_high \in BOOLEAN :
        Decide(trig, depth, hours, rel_high)

SpecSize == InitSize /\ [][NextSize]_vars

\* one day after another of sized trading
DayTriggers == {<<90, TRUE, FALSE>>, <<90, TRUE, TRUE>>}
DayHours == {10, 240}
DayDepth == 50 * Dollar

NextDay ==
    \/ \E m \in Markets, side \in Sides : Open(m, side, 90, DefaultAmount * Dollar)
    \/ \E m \in Markets, side \in Sides, trig \in DayTriggers, hours \in DayHours,
          rel_high \in BOOLEAN :
          SizedOpen(m, side, trig, DayDepth, hours, rel_high)
    \/ NewDay

SpecDay == Init /\ [][NextDay]_vars

\* the blend as a function of the history and the current forecasts: the
\* arguments are drawn first, the call returns next
PendingBlend(city_data, today, current_forecasts) ==
    [NoBlend EXCEPT !.in = [city_data |-> city_data, today |-> today,
                            current_forecasts |-> current_forecasts],
                    !.path = "pending"]

InitBlend ==
    /\ Init!1 /\ Init!2 /\ Init!3 /\ Init!4 /\ Init!5 /\ Init!6 /\ Init!7
    /\ Init!8 /\ Init!9 /\ Init!10 /\ Init!11 /\ Init!12 /\ Init!13 /\ Init!14
    /\ Init!15
    /\ \E city_data \in CityHistories, today \in BlendTodays,
          current_forecasts \in CurrentForecasts :
          deb = PendingBlend(city_data, today, current_forecasts)
    /\ prob = NoDistribution
    /\ InitAnalysis!3 /\ InitAnalysis!4 /\ InitAnalysis!5 /\ InitAnalysis!6
    /\ InitAnalysis!7 /\ InitAnalysis!8 /\ InitAnalysis!9 /\ InitAnalysis!10
    /\ InitAnalysis!11 /\ InitAnalysis!12 /\ InitAnalysis!13 /\ InitAnalysis!14

Blend(tie) ==
    /\ deb.path = "pending"
    /\ deb' = CalculateDynamicWeights(deb.in.city_data, deb.in.today,
                                      deb.in.current_forecasts, tie)
    /\ UNCHANGED <<initial_capital, balance, positions, history, trades, file, persisted,
                   up, call, ret>>
    /\ UNCHANGED sizer
    /\ UNCHANGED prob
    /\ UNCHANGED store
    /\ UNCHANGED <<io, signal, book, rel_volume, race>>

NextBlend == \E tie \in {0, 1} : Blend(tie)

SpecBlend == InitBlend /\ [][NextBlend]_vars

\* the blend over histories longer than the lookback
LookbackSpan == LookbackDays + 3
LookbackRecords == {DayRecord(300, 290, 330, 320), DayRecord(None, 290, 320, 300)}
\* the oldest and the latest day may also lack a model
LookbackHistories ==
    {h \in [1 .. LookbackSpan -> LookbackRecords \cup {DayRecord(300, 290, 330, None)}] :
        \A d \in 2 .. LookbackSpan - 1 : h[d] \in LookbackRecords}
LookbackTodays == {LookbackSpan - 1, LookbackSpan + 1}
LookbackForecasts ==
    {[ECMWF |-> 280, GFS |-> 300, ICON |-> 290], [ECMWF |-> 280, GFS |-> None, ICON |-> 290]}

InitLookback ==
    /\ Init!1 /\ Init!2 /\ Init!3 /\ Init!4 /\ Init!5 /\ Init!6 /\ Init!7
    /\ Init!8 /\ Init!9 /\ Init!10 /\ Init!11 /\ Init!12 /\ Init!13 /\ Init!14
    /\ Init!15
    /\ \E city_data \in LookbackHistories, today \in LookbackTodays,
          current_forecasts \in LookbackForecasts :
          deb = PendingBlend(city_data, today, current_forecasts)
    /\ prob = NoDistribution
    /\ InitAnalysis!3 /\ InitAnalysis!4 /\ InitAnalysis!5 /\ InitAnalysis!6
    /\ InitAnalysis!7 /\ InitAnalysis!8 /\ InitAnalysis!9 /\ InitAnalysis!10
    /\ InitAnalysis!11 /\ InitAnalysis!12 /\ InitAnalysis!13 /\ InitAnalysis!14

NextLookback == \E tie \in {0, 1} : Blend(tie)

SpecLookback == InitLookback /\ [][NextLookback]_vars

\* two concurrent update_daily_record calls
InitTwo ==
    /\ Init!1 /\ Init!2 /\ Init!3 /\ Init!4 /\ Init!5 /\ Init!6 /\ Init!7
    /\ Init!8 /\ Init!9 /\ Init!10 /\ Init!11 /\ Init!12 /\ Init!13 /\ Init!14
    /\ Init!15
    /\ InitAnalysis!1 /\ InitAnalysis!2 /\ InitAnalysis!3 /\ InitAnalysis!4
    /\ InitAnalysis!5 /\ InitAnalysis!6 /\ InitAnalysis!7 /\ InitAnalysis!8
    /\ InitAnalysis!9 /\ InitAnalysis!10 /\ InitAnalysis!11 /\ InitAnalysis!12
    /\ InitAnalysis!13
    /\ race \in RaceInits

NotRace ==
    /\ UNCHANGED <<initial_capital, balance, positions, history, trades, file, persisted,
                   up, call, ret>>
    /\ UNCHANGED sizer
    /\ UNCHANGED <<deb, prob, hfile, history_cache, history_mtime, current_day, hcall,
                   last_good, io, signal, book, rel_volume>>

NextTwo ==
    \/ \E p \in Procs : ProcLoad(p) /\ NotRace
    \/ \E p \in Procs : ProcOpen(p) /\ NotRace
    \/ \E p \in Procs : ProcLock(p) /\ NotRace
    \/ \E p \in Procs : ProcDump(p) /\ NotRace
    \/ \E p \in Procs : ProcUnlock(p) /\ NotRace

SpecTwo == InitTwo /\ [][NextTwo]_vars

\* the settlement distribution as a function of its inputs
InitProb ==
    /\ Init!1 /\ Init!2 /\ Init!3 /\ Init!4 /\ Init!5 /\ Init!6 /\ Init!7
    /\ Init!8 /\ Init!9 /\ Init!10 /\ Init!11 /\ Init!12 /\ Init!13 /\ Init!14
    /\ Init!15
    /\ deb = NoBlend
    /\ \E stats \in EnsembleStats, anchor \in Anchors, observed \in ObservedMaxima,
          trend \in Trends :
          /\ OnGrid(stats, anchor, observed, trend)
          /\ prob = PendingDistribution(stats, anchor, observed, trend)
    /\ InitAnalysis!3 /\ InitAnalysis!4 /\ InitAnalysis!5 /\ InitAnalysis!6
    /\ InitAnalysis!7 /\ InitAnalysis!8 /\ InitAnalysis!9 /\ InitAnalysis!10
    /\ InitAnalysis!11 /\ InitAnalysis!12 /\ InitAnalysis!13 /\ InitAnalysis!14

Distribute ==
    /\ ~prob.done
    /\ prob' = SettlementDistribution(prob.in.stats, prob.in.anchor, prob.in.observed,
                                      prob.in.trend)
    /\ UNCHANGED <<initial_capital, balance, positions, history, trades, file, persisted,
                   up, call, ret, deb>>
    /\ UNCHANGED sizer
    /\ UNCHANGED store
    /\ UNCHANGED <<io, signal, book, rel_volume, race>>

NextProb == Distribute

SpecProb == InitProb /\ [][NextProb]_vars

\* the history store over some days
NotStore == <<initial_capital, balance, positions, history, trades, file, persisted, up,
              call, ret, daily_spent, decision, pushed_signals, sized_today,
              opened_today, deb, prob, io, signal, rejections, book, rel_volume,
              race>>

\* update_daily_record up to the end of save_history; saved says whether
\* save_history completed, and damaged what the file holds if it did not
UpdateDailyRecord(c, d, forecasts, actual_high, saved, damaged) ==
    LET L == LoadHistory(hfile, history_cache, history_mtime)
        data == IF HasRecord(L.data, c, d) THEN L.data ELSE Put(L.data, c, d, EmptyRecord)
        new == Prune(Put(data, c, d, [forecasts |-> forecasts, actual_high |-> actual_high]),
                     current_day - RetentionDays)
        args == [NoHistoryCall EXCEPT !.op = "update_daily_record", !.city = c, !.date = d,
                                      !.forecasts = forecasts, !.actual = actual_high,
                                      !.failed = L.failed]
    IN  IF Unchanged(data[c][d], forecasts, actual_high)
        THEN /\ history_cache' = IF L.aliased THEN data ELSE L.cache
             /\ history_mtime' = L.mtime
             /\ hcall' = [args EXCEPT !.result = data]
             /\ last_good' = IF L.read THEN L.data ELSE last_good
             /\ UNCHANGED hfile
        ELSE /\ hfile.mtime < MaxWrites
             /\ history_cache' = new
             /\ hcall' = [args EXCEPT !.result = new, !.wrote = saved]
             /\ IF saved
                THEN /\ hfile' = [kind |-> "full", doc |-> new, mtime |-> hfile.mtime + 1]
                     /\ history_mtime' = hfile'.mtime
                     /\ last_good' = new
                ELSE /\ hfile' = IF damaged
                                 THEN [kind |-> "corrupt", doc |-> EmptyStore,
                                       mtime |-> hfile.mtime + 1]
                                 ELSE hfile
                     /\ history_mtime' = L.mtime
                     /\ last_good' = IF L.read THEN L.data ELSE last_good

\* update_daily_record(city_name, date_str, forecasts, actual_high)
Upsert(c, d, forecasts, actual_high) ==
    /\ UpdateDailyRecord(c, d, forecasts, actual_high, TRUE, FALSE)
    /\ UNCHANGED <<current_day>>
    /\ UNCHANGED NotStore

\* the same call when save_history fails: open() raises and the file is as
\* before, or json.dump raises after open(path, 'w') has truncated it
UpsertSaveFails(c, d, forecasts, actual_high, damaged) ==
    /\ ~Unchanged(IF HasRecord(LoadHistory(hfile, history_cache, history_mtime).data, c, d)
                  THEN LoadHistory(hfile, history_cache, history_mtime).data[c][d]
                  ELSE EmptyRecord, forecasts, actual_high)
    /\ UpdateDailyRecord(c, d, forecasts, actual_high, FALSE, damaged)
    /\ UNCHANGED <<current_day>>
    /\ UNCHANGED NotStore

\* load_history(filepath)
Load ==
    LET L == LoadHistory(hfile, history_cache, history_mtime)
    IN  /\ history_cache' = L.cache
        /\ history_mtime' = L.mtime
        /\ hcall' = [NoHistoryCall EXCEPT !.op = "load_history", !.result = L.data,
                                          !.failed = L.failed]
        /\ last_good' = IF L.read THEN L.data ELSE last_good
        /\ UNCHANGED <<hfile, current_day>>
        /\ UNCHANGED NotStore

\* the next day begins
AdvanceDay ==
    /\ current_day < LastDay
    /\ current_day' = current_day + 1
    /\ UNCHANGED <<hfile, history_cache, history_mtime, hcall, last_good>>
    /\ UNCHANGED NotStore

\* the file is damaged from outside the process
Corrupt ==
    /\ hfile.kind = "full"
    /\ hfile.mtime < MaxWrites
    /\ hfile' = [kind |-> "corrupt", doc |-> EmptyStore, mtime |-> hfile.mtime + 1]
    /\ UNCHANGED <<history_cache, history_mtime, current_day, hcall, last_good>>
    /\ UNCHANGED NotStore

NextStore ==
    \/ \E c \in Cities, f \in StoreForecasts, a \in StoreActuals : \E d \in StoreDates[c] :
          Upsert(c, d, f, a)
    \/ Load
    \/ AdvanceDay

SpecStore == Init /\ [][NextStore]_vars

\* the store of one city and one day, with failing saves and a file damaged
\* from outside
FaultDate == 16

NextStoreFaults ==
    \/ \E c \in {"c1"}, f \in StoreForecasts, a \in StoreActuals :
          Upsert(c, FaultDate, f, a)
    \/ \E c \in {"c1"}, f \in StoreForecasts, a \in StoreActuals, damaged \in BOOLEAN :
          UpsertSaveFails(c, FaultDate, f, a, damaged)
    \/ Load
    \/ Corrupt

SpecStoreFaults == Init /\ [][NextStoreFaults]_vars

\* ------------------------------------- save_history and load_history, steps
NotFile == <<initial_capital, balance, positions, history, trades, file, persisted, up,
             call, ret, daily_spent, decision, pushed_signals, sized_today,
             opened_today, deb, prob, hfile, history_cache, history_mtime,
             current_day, hcall, last_good, signal, rejections, book, rel_volume,
             race>>

\* save_history: open(filepath, 'w') truncates the file
SaveOpen ==
    /\ io.wpc = "idle"
    /\ io.disk.ver < MaxSaves
    /\ io' = [io EXCEPT !.wpc = "opened",
                        !.disk = [ver |-> io.disk.ver + 1, len |-> 0,
                                  mtime |-> io.disk.mtime + 1]]
    /\ UNCHANGED NotFile

\* save_history: fcntl.flock(f, LOCK_EX) returns once no other lock is held
SaveLock ==
    /\ io.wpc = "opened"
    /\ io.held = {}
    /\ io' = [io EXCEPT !.wpc = "locked", !.held = {"writer"}]
    /\ UNCHANGED NotFile

\* save_history: json.dump writes the pieces to the buffered file object,
\* which has passed the first flushed of them on to the file
SaveDump(flushed) ==
    /\ io.wpc = "locked"
    /\ io' = [io EXCEPT !.wpc = "dumped",
                        !.disk.len = flushed,
                        !.disk.mtime = IF flushed > 0 THEN @ + 1 ELSE @]
    /\ UNCHANGED NotFile

\* save_history: fcntl.flock(f, LOCK_UN), inside the with block
SaveUnlock ==
    /\ io.wpc = "dumped"
    /\ io' = [io EXCEPT !.wpc = "unlocked", !.held = {}]
    /\ UNCHANGED NotFile

\* save_history: the with block closes the file and flushes the buffer
SaveClose ==
    /\ io.wpc = "unlocked"
    /\ io' = [io EXCEPT !.wpc = "idle",
                        !.disk.len = DocChunks,
                        !.disk.mtime = IF io.disk.len < DocChunks THEN @ + 1 ELSE @]
    /\ UNCHANGED NotFile

\* load_history: os.path.getmtime and the cache test
LoadStat ==
    /\ io.rpc = "idle"
    /\ IF io.disk.mtime = io.mtime /\ io.cache # NoVersion
       THEN io' = [io EXCEPT !.result = io.cache]
       ELSE io' = [io EXCEPT !.rpc = "stat", !.current_mtime = io.disk.mtime]
    /\ UNCHANGED NotFile

\* load_history: open(filepath, 'r')
LoadOpen ==
    /\ io.rpc = "stat"
    /\ io' = [io EXCEPT !.rpc = "opened"]
    /\ UNCHANGED NotFile

\* load_history: fcntl.flock(f, LOCK_SH) returns once no exclusive lock is held
LoadLock ==
    /\ io.rpc = "opened"
    /\ "writer" \notin io.held
    /\ io' = [io EXCEPT !.rpc = "locked", !.held = @ \cup {"reader"}]
    /\ UNCHANGED NotFile

\* load_history: json.load(f) parses what the file holds, or raises and the
\* except clause returns the cache
LoadRead ==
    /\ io.rpc = "locked"
    /\ IF io.disk.len = DocChunks
       THEN io' = [io EXCEPT !.rpc = "read",
                            !.seen = [ver |-> io.disk.ver, len |-> io.disk.len]]
       ELSE io' = [io EXCEPT !.rpc = "idle", !.held = @ \ {"reader"},
                            !.seen = [ver |-> io.disk.ver, len |-> io.disk.len],
                            !.result = io.cache]
    /\ UNCHANGED NotFile

\* load_history: fcntl.flock(f, LOCK_UN), the cache update and the return
LoadUnlock ==
    /\ io.rpc = "read"
    /\ io' = [io EXCEPT !.rpc = "idle", !.held = @ \ {"reader"},
                        !.cache = io.seen.ver, !.mtime = io.current_mtime,
                        !.result = io.seen.ver]
    /\ UNCHANGED NotFile

NextLock ==
    \/ SaveOpen
    \/ SaveLock
    \/ \E flushed \in 0..DocChunks : SaveDump(flushed)
    \/ SaveUnlock
    \/ SaveClose
    \/ LoadStat
    \/ LoadOpen
    \/ LoadLock
    \/ LoadRead
    \/ LoadUnlock

SpecLock == Init /\ [][NextLock]_vars

\* ------------------------------------------------- the range alert's book
Level(price, size) == [price |-> price, size |-> size]

\* books at the edges of the spread and depth tests, on either side
GateBooks ==
    Orderbooks \cup
    {[bids |-> <<Level(50, 100)>>, asks |-> <<Level(55, 20)>>],
     [bids |-> <<Level(50, 20)>>, asks |-> <<Level(55, 100)>>],
     [bids |-> <<Level(50, 50)>>, asks |-> <<Level(60, 50)>>],
     [bids |-> <<Level(50, 49)>>, asks |-> <<Level(60, 49)>>],
     [bids |-> <<Level(50, 100)>>, asks |-> <<Level(61, 100)>>],
     [bids |-> <<Level(50, 20), Level(49, 20), Level(48, 20)>>, asks |-> <<Level(55, 10)>>],
     [bids |-> <<Level(50, 20)>>, asks |-> <<>>]}

TriggerSides == {"Buy Yes", "Buy No", "Sell Yes"}

\* trigger_side.startswith("Buy")
IsBuy(trigger_side) == trigger_side \in {"Buy Yes", "Buy No"}

\* main, the depth and spread check of the range alert: the analysis (the
\* default one when no book was fetched), the depth of the side the trade
\* takes, and whether the market is skipped
CheckBook(in) ==
    LET ob_analysis ==
            IF in.has_data THEN Analyze(in.orderbook)
            ELSE [signal |-> "", confidence |-> 0, tradeable |-> TRUE, spread |-> 0,
                  ask_depth |-> 0, bid_depth |-> 0]
    IN  [in |-> in, done |-> TRUE, analysis |-> ob_analysis,
         depth |-> IF IsBuy(in.trigger_side) THEN ob_analysis.ask_depth
                   ELSE ob_analysis.bid_depth,
         skipped |-> ~ob_analysis.tradeable /\ ~in.is_categorical]

InitBook ==
    /\ Init!1 /\ Init!2 /\ Init!3 /\ Init!4 /\ Init!5 /\ Init!6 /\ Init!7
    /\ Init!8 /\ Init!9 /\ Init!10 /\ Init!11 /\ Init!12 /\ Init!13 /\ Init!14
    /\ Init!15
    /\ InitAnalysis!1 /\ InitAnalysis!2 /\ InitAnalysis!3 /\ InitAnalysis!4
    /\ InitAnalysis!5 /\ InitAnalysis!6 /\ InitAnalysis!7 /\ InitAnalysis!8
    /\ InitAnalysis!9 /\ InitAnalysis!10 /\ InitAnalysis!11
    /\ InitAnalysis!13 /\ InitAnalysis!14
    /\ \E orderbook \in GateBooks, has_data \in BOOLEAN, trigger_side \in TriggerSides,
          is_categorical \in BOOLEAN :
          /\ (~has_data => orderbook = NoBook.in.orderbook)
          /\ book = [NoBook EXCEPT !.in =
                        [has_data |-> has_data, orderbook |-> orderbook,
                         trigger_side |-> trigger_side,
                         is_categorical |-> is_categorical]]

RangeCheck ==
    /\ ~book.done
    /\ book' = CheckBook(book.in)
    /\ UNCHANGED <<initial_capital, balance, positions, history, trades, file, persisted,
                   up, call, ret, deb, prob, hfile, history_cache, history_mtime,
                   current_day, hcall, last_good, io, signal, rel_volume, race>>
    /\ UNCHANGED sizer

NextBook == RangeCheck

SpecBook == InitBook /\ [][NextBook]_vars

\* ------------------------------------------- the range alert's volume share
\* <<market_vol, total_daily_vol>> in dollars: shares of 0, 10, 29, 30, 31 and
\* 100 per cent, and a day without volume
VolumePairs ==
    {<<0, 0>>, <<0, 100>>, <<10, 100>>, <<29, 100>>, <<30, 100>>, <<31, 100>>,
     <<100, 100>>, <<3, 10>>, <<60, 200>>}
VolumeHours == {11, 41, 240}
VolumeSpent == {0, 4 * Dollar}

\* (market_vol / total_daily_vol > 0.3) if total_daily_vol > 0 else False
IsRelHighVol(market_vol, total_daily_vol) ==
    total_daily_vol > 0 /\ 10 * market_vol > 3 * total_daily_vol

InitVolume ==
    /\ Init!1 /\ Init!2 /\ Init!3 /\ Init!4 /\ Init!5 /\ Init!6 /\ Init!7
    /\ Init!8 /\ Init!9 /\ Init!10
    /\ daily_spent \in VolumeSpent
    /\ decision = NoDecision
    /\ pushed_signals = {}
    /\ sized_today = 0
    /\ opened_today = 0
    /\ InitAnalysis!1 /\ InitAnalysis!2 /\ InitAnalysis!3 /\ InitAnalysis!4
    /\ InitAnalysis!5 /\ InitAnalysis!6 /\ InitAnalysis!7 /\ InitAnalysis!8
    /\ InitAnalysis!9 /\ InitAnalysis!10 /\ InitAnalysis!11 /\ InitAnalysis!12
    /\ InitAnalysis!14
    /\ \E v \in VolumePairs, trig \in Triggers, hours \in VolumeHours :
          rel_volume = [NoRelVolume EXCEPT !.in =
                          [market_vol |-> v[1], total_daily_vol |-> v[2],
                           trig |-> trig, hours |-> hours]]

\* main, steps 2 to 4 of the range alert: the volume share, the base position
\* and the sizing
SizeRange ==
    /\ ~rel_volume.done
    /\ rel_volume' = [rel_volume EXCEPT
                        !.done = TRUE,
                        !.is_rel_high_vol = IsRelHighVol(rel_volume.in.market_vol,
                                                         rel_volume.in.total_daily_vol)]
    /\ decision' = CalculatePositionSize(
                       BasePosition(rel_volume.in.trig[1], rel_volume.in.trig[2],
                                    rel_volume.in.trig[3]),
                       DayDepth, rel_volume.in.hours, rel_volume'.is_rel_high_vol,
                       Budget - daily_spent)
    /\ UNCHANGED <<initial_capital, balance, positions, history, trades, file, persisted,
                   up, call, ret, daily_spent, pushed_signals, sized_today, opened_today,
                   rejections>>
    /\ UNCHANGED <<deb, prob, hfile, history_cache, history_mtime, current_day, hcall,
                   last_good, io, signal, book, race>>

NextVolume == SizeRange

SpecVolume == InitVolume /\ [][NextVolume]_vars

\* ------------------------------------------------------------ the scorer
\* calculate_signal as a function of the configured weights and its arguments
InitScore ==
    /\ Init!1 /\ Init!2 /\ Init!3 /\ Init!4 /\ Init!5 /\ Init!6 /\ Init!7
    /\ Init!8 /\ Init!9 /\ Init!10 /\ Init!11 /\ Init!12 /\ Init!13 /\ Init!14
    /\ Init!15
    /\ InitAnalysis!1 /\ InitAnalysis!2 /\ InitAnalysis!3 /\ InitAnalysis!4
    /\ InitAnalysis!5 /\ InitAnalysis!6 /\ InitAnalysis!7 /\ InitAnalysis!8
    /\ InitAnalysis!9
    /\ InitAnalysis!11 /\ InitAnalysis!12 /\ InitAnalysis!13 /\ InitAnalysis!14
    /\ \E weights \in WeightSets, confidence \in Confidences,
          weather_consensus \in Consensuses, volume_history \in VolumeHistories,
          transactions \in Transactions, orderbook \in Orderbooks,
          price_history \in PriceHistories, whale_activity \in WhaleActivities :
          signal = [NoSignal EXCEPT !.in =
                       [weights |-> weights, confidence |-> confidence,
                        weather_consensus |-> weather_consensus,
                        volume_history |-> volume_history,
                        transactions |-> transactions, orderbook |-> orderbook,
                        price_history |-> price_history,
                        whale_activity |-> whale_activity]]

Score ==
    /\ ~signal.done
    /\ signal' = CalculateSignal(signal.in)
    /\ UNCHANGED <<initial_capital, balance, positions, history, trades, file, persisted,
                   up, call, ret, daily_spent, decision, pushed_signals, sized_today,
                   opened_today, deb, prob, hfile, history_cache, history_mtime,
                   current_day, hcall, last_good, io, rejections, book, rel_volume,
                   race>>

NextScore == Score

SpecScore == InitScore /\ [][NextScore]_vars

\* ================================================================ claims
\* helpers of the claims
SamePosition(p, q) ==
    p.market_id = q.market_id /\ p.side = q.side /\ p.opened_at = q.opened_at

InSeq(p, ps) == \E i \in 1..Len(ps) : SamePosition(p, ps[i])

\* the side-adjusted price of position p under snapshot snap, in tenths of a cent
AdjustedPrice(p, snap) ==
    LET v == snap[p.market_id]
        q == IF v = NoPriceKey THEN 500 ELSE v
    IN  IF p.side = "YES" THEN q ELSE 1000 - q

CrossesThreshold(p, snap) ==
    /\ p.market_id \in DOMAIN snap
    /\ (AdjustedPrice(p, snap) >= 995 \/ AdjustedPrice(p, snap) <= 5)

RECURSIVE CostSum(_)
CostSum(ps) == IF ps = <<>> THEN 0 ELSE Head(ps).cost_usd + CostSum(Tail(ps))

\* shares x (current price / 100), summed over ps
RECURSIVE MarkSum(_)
MarkSum(ps) ==
    IF ps = <<>> THEN 0
    ELSE (Head(ps).shares * Head(ps).current_price) \div 1000 + MarkSum(Tail(ps))

\* C1: an open for an (entity, side) that already has an open position returns
\* False, and every refused open leaves balance, positions, trades and history
\* as they were.
C1_DuplicateOpenRefused ==
    [][call'.op = "open_position" =>
         /\ (\E i \in 1..Len(positions) :
                /\ positions[i].market_id = call'.market_id
                /\ positions[i].side = call'.side)
            => ~ret'.success
         /\ ~ret'.success => UNCHANGED <<balance, positions, trades, history>>]_vars

C1_Witness ==
    /\ call.op = "open_position"
    /\ ~ret.success
    /\ balance >= call.amount
    /\ \E i \in 1..Len(positions) :
          positions[i].market_id = call.market_id /\ positions[i].side = call.side

\* C2: the balance is never negative.
C2_BalanceNeverNegative == balance >= 0

C2_Witness ==
    /\ call.op = "open_position"
    /\ ~ret.success
    /\ balance < call.amount
    /\ history # <<>>
    /\ ~\E i \in 1..Len(positions) :
          positions[i].market_id = call.market_id /\ positions[i].side = call.side

\* C3: every position's cost has left the balance once and every closed
\* position's mark-to-market value has entered it once, and nothing else has
\* moved the balance: balance = capital - (all costs) + (values of the closed).
C3_DebitOnceCreditOnce ==
    balance = initial_capital - CostSum(positions) - CostSum(history) + MarkSum(history)

C3_Witness ==
    /\ positions # <<>>
    /\ \E i \in 1..Len(history) : history[i].shares > 0 /\ history[i].current_price > 5

\* C4: a position leaves the open map only in an update_pnl whose snapshot puts
\* its side-adjusted price at >= 99.5 or <= 0.5; a position that is not quoted,
\* or is quoted strictly in between, stays OPEN; closed positions are never
\* touched again.
C4_ClosesOnlyOnThreshold ==
    [][/\ \A i \in 1..Len(positions) :
            /\ ~InSeq(positions[i], positions')
               => /\ call'.op = "update_pnl"
                  /\ CrossesThreshold(positions[i], call'.snap)
                  /\ \E j \in Len(history) + 1 .. Len(history') :
                        SamePosition(positions[i], history'[j])
            /\ (call'.op = "update_pnl" /\ ~CrossesThreshold(positions[i], call'.snap))
               => \E j \in 1..Len(positions') :
                     /\ SamePosition(positions[i], positions'[j])
                     /\ positions'[j].status = "OPEN"
       /\ Len(history') >= Len(history)
       /\ SubSeq(history', 1, Len(history)) = history
       /\ \A j \in 1..Len(history') : ~InSeq(history'[j], positions')]_vars

C4_Witness ==
    /\ call.op = "update_pnl"
    /\ history # <<>>
    /\ history[Len(history)].closed_at = Len(trades) - 1
    /\ \E i \in 1..Len(positions) :
          /\ positions[i].market_id \in DOMAIN call.snap
          /\ positions[i].current_price = 6

C4_WitnessAbsent ==
    /\ call.op = "update_pnl"
    /\ history # <<>>
    /\ \E i \in 1..Len(positions) : positions[i].market_id \notin DOMAIN call.snap

\* C5: an update_pnl that quotes an OPEN position at a side-adjusted price p
\* with p >= 99.5 or p <= 0.5 marks it CLOSED at p, removes it from the open
\* map, appends it to history, appends one SELL trade for it and credits the
\* balance by shares x p / 100.
SettlingNow(snap) ==
    {i \in 1..Len(positions) :
        positions[i].status = "OPEN" /\ CrossesThreshold(positions[i], snap)}

RECURSIVE CreditSum(_, _)
CreditSum(S, snap) ==
    IF S = {} THEN 0
    ELSE LET i == CHOOSE x \in S : TRUE
         IN  (positions[i].shares * AdjustedPrice(positions[i], snap)) \div 1000
             + CreditSum(S \ {i}, snap)

C5_CloseOnThreshold ==
    [][call'.op = "update_pnl" =>
         /\ \A i \in SettlingNow(call'.snap) :
               /\ ~InSeq(positions[i], positions')
               /\ \E j \in Len(history) + 1 .. Len(history') :
                     /\ SamePosition(positions[i], history'[j])
                     /\ history'[j].status = "CLOSED"
                     /\ history'[j].current_price = AdjustedPrice(positions[i], call'.snap)
               /\ \E k \in Len(trades) + 1 .. Len(trades') :
                     /\ trades'[k].type = "SELL"
                     /\ trades'[k].option = positions[i].market_id
                     /\ trades'[k].side = positions[i].side
                     /\ trades'[k].price = AdjustedPrice(positions[i], call'.snap)
         /\ Len(history') = Len(history) + Cardinality(SettlingNow(call'.snap))
         /\ Len(trades') = Len(trades) + Cardinality(SettlingNow(call'.snap))
         /\ balance' = balance + CreditSum(SettlingNow(call'.snap), call'.snap)]_vars

\* snapshot price 99.6 has closed a YES position and credited shares x 0.996
C5_Witness ==
    /\ call.op = "update_pnl"
    /\ history # <<>>
    /\ LET h == history[Len(history)]
       IN  /\ h.side = "YES" /\ h.status = "CLOSED" /\ h.current_price = 996
           /\ h.shares > 0
           /\ h.market_id \in DOMAIN call.snap /\ call.snap[h.market_id] = 996
           /\ h.closed_at = Len(trades) - 1
           /\ trades[Len(trades)].type = "SELL"
           /\ ~InSeq(h, positions)

\* C6: the persisted document that another process can read is always a
\* complete ledger, the one the last completed save wrote.
C6_AllOrNothing == file = persisted

\* C7: a restart loads exactly the last successfully persisted ledger.
C7_RestartLoadsLastPersisted ==
    [][(~up /\ up') =>
         /\ balance' = LoadData(persisted, initial_capital).balance
         /\ positions' = LoadData(persisted, initial_capital).positions
         /\ trades' = LoadData(persisted, initial_capital).trades
         /\ history' = LoadData(persisted, initial_capital).history]_vars

\* ------------------------------------------------------------- sizer claims
ReasonTagNames == {"NEAR_DEADLINE", "DAILY_CAP_REACHED", "LOW_RELATIVE_VOLUME"}

C8_WitnessCap ==
    /\ daily_spent = Budget
    /\ decision.base > 0
    /\ decision.remaining = 0
    /\ decision.amount = 0

\* C9: the sizer returns 0 whenever at most one hour is left, whatever the
\* base amount, book depth, remaining budget and relative-volume flag.
C9_ZeroNearDeadline ==
    decision.hours <= NearDeadline => decision.amount = 0

\* C9 witness: the largest base, a full budget, high relative volume and
\* exactly one hour left
C9_Witness ==
    /\ decision.hours = NearDeadline
    /\ decision.base = 10 * Dollar
    /\ decision.remaining = Budget
    /\ decision.rel_high
    /\ decision.depth > 0
    /\ decision.amount = 0

\* C10: every decision of amount 0 carries a non-empty reason made of
\* NEAR_DEADLINE, DAILY_CAP_REACHED and LOW_RELATIVE_VOLUME.
C10_ZeroCarriesReason ==
    decision.amount = 0 =>
        /\ decision.reason # {}
        /\ decision.reason \subseteq ReasonTagNames

\* C10 witness: a zero amount of a positive base with budget left
C10_Witness ==
    /\ decision.base > 0
    /\ decision.remaining > 0
    /\ decision.amount = 0
    /\ decision.reason = {"NEAR_DEADLINE"}

\* ------------------------------------------------------------- blend claims
\* 1e-6 in units of 10^-WeightDigits
WeightTolerance == Pow10(WeightDigits - 6)

\* C11: on the weighted path with at least 2 models having a current
\* forecast, every weight is strictly positive and the weights sum to 1
\* within 1e-6.
C11_WeightsSumToOne ==
    (deb.path = "weighted" /\ Cardinality(ValidVals(deb.in.current_forecasts)) >= 2) =>
        /\ DOMAIN deb.weights = ValidVals(deb.in.current_forecasts)
        /\ \A m \in DOMAIN deb.weights : deb.weights[m] > 0
        /\ Abs(SumOver(DOMAIN deb.weights, deb.weights) - Pow10(WeightDigits))
               <= WeightTolerance

\* C11 witness: a weighted blend of two models while the third, which has
\* history, has no current forecast, and the two weights differ
C11_Witness ==
    /\ deb.path = "weighted"
    /\ deb.days_used >= 2
    /\ DOMAIN deb.weights = {"ECMWF", "GFS"}
    /\ ErrorDays(deb.in.city_data, deb.in.today, "ICON") # {}
    /\ deb.weights["ECMWF"] > deb.weights["GFS"]

\* C12: with history but fewer than 2 valid days the blend returns the mean
\* of the non-null current forecasts (to one decimal) and a label with the
\* number of valid days.
C12_FewDaysEqualWeight ==
    (deb.path # "pending"
       /\ DOMAIN deb.in.city_data # {}
       /\ Cardinality(ValidDays(deb.in.city_data, deb.in.today)) < 2) =>
        LET V == ValidVals(deb.in.current_forecasts)
            sum == SumOver(V, [m \in V |-> deb.in.current_forecasts[m]])
        IN  /\ ~deb.raised
            /\ deb.path = "equal_few_days"
            /\ deb.days_used = Cardinality(ValidDays(deb.in.city_data, deb.in.today))
            /\ V # {}
            /\ 10 * Abs(deb.blended_high * Cardinality(V) - sum) <= 5 * Cardinality(V)

\* ------------------------------------------------------ distribution claims
TableSum == SumOver(DOMAIN prob.table, prob.table)

\* C13: the returned distribution is empty, as it is when the ensemble stats
\* are absent, or the probabilities of its buckets sum to 1 (here up to the
\* truncation of each probability to a millionth).
C13_ProbabilitiesSumToOne ==
    prob.done =>
        /\ prob.in.stats = NoStats => DOMAIN prob.table = {}
        /\ \/ DOMAIN prob.table = {}
           \/ Abs(TableSum - Million) <= Cardinality(DOMAIN prob.table)

\* C14: no bucket strictly below the observed maximum rounded half-up is in
\* the distribution with a nonzero probability.
C14_NoBucketBelowObserved ==
    (prob.done /\ prob.in.observed # None) =>
        \A b \in DOMAIN prob.table :
            prob.table[b] > 0 => b >= RoundHalfUp(prob.in.observed)

\* ------------------------------------------------------------ store claims
\* the step is a call of update_daily_record
UpsertStep == hcall'.op = "update_daily_record" /\ current_day' = current_day

ArgRecord(c) == [forecasts |-> c.forecasts, actual_high |-> c.actual]

\* the stored record of the call's day already holds its forecasts and actual
SameStored(doc, c) ==
    HasRecord(doc, c.city, c.date) /\ doc[c.city][c.date] = ArgRecord(c)

\* C15 as stated: an upsert of the forecasts and actual that the stored
\* record already holds writes nothing and leaves the persisted store as it
\* was; any other upsert leaves the record of that day holding the new
\* forecasts and actual.
C15_UpsertSkipsOrOverwrites ==
    [][UpsertStep =>
         /\ SameStored(hfile.doc, hcall') => hfile' = hfile
         /\ ~SameStored(hfile.doc, hcall') => SameStored(hfile'.doc, hcall')]_vars

\* C15 as amended: an upsert writes nothing and leaves the persisted store as
\* it was when the stored record already holds its forecasts and actual; any
\* other upsert rewrites the file, and the record of that day holds the new
\* forecasts and actual unless the day is more than 14 days before the
\* current date, in which case the same save prunes it.
C15_UpsertSkipsOrOverwritesInWindow ==
    [][UpsertStep =>
         /\ SameStored(hfile.doc, hcall') => hfile' = hfile
         /\ ~SameStored(hfile.doc, hcall') =>
               /\ hfile'.mtime = hfile.mtime + 1
               /\ IF hcall'.date >= current_day - RetentionDays
                  THEN SameStored(hfile'.doc, hcall')
                  ELSE ~HasRecord(hfile'.doc, hcall'.city, hcall'.date)]_vars

\* C15 witness: the third call wrote nothing because the record of its day,
\* written twice before with other values, already held its values
C15_Witness ==
    /\ hcall.op = "update_daily_record"
    /\ ~hcall.wrote
    /\ SameStored(hfile.doc, hcall)
    /\ hfile.mtime = 2
    /\ history_mtime = 2

\* C17: a load that finds the file corrupted returns the store as the last
\* successful load or save had it.
C17_CorruptedLoadReturnsLastGood ==
    [][(hcall'.op = "load_history" /\ hcall'.failed) => hcall'.result = last_good]_vars

\* C18: after a save no city keeps a record older than 14 days, and no
\* record inside the 14 days is removed.
C18_SavePrunesOnlyOld ==
    [][(hfile' # hfile /\ hfile'.kind = "full") =>
         /\ \A c \in DOMAIN hfile'.doc : \A d \in DOMAIN hfile'.doc[c] :
               d >= current_day - RetentionDays
         /\ \A c \in DOMAIN hfile.doc : \A d \in DOMAIN hfile.doc[c] :
               (d >= current_day - RetentionDays /\ <<c, d>> # <<hcall'.city, hcall'.date>>)
                  => (HasRecord(hfile'.doc, c, d) /\ hfile'.doc[c][d] = hfile.doc[c][d])]_vars

\* C18 witness: a save for one city has pruned the only record of the other
\* city and kept a record that is exactly 14 days old
C18_Witness ==
    /\ hcall.op = "update_daily_record"
    /\ hcall.wrote
    /\ hcall.city = "c1"
    /\ hcall.date = 16
    /\ current_day = 16
    /\ "c2" \in DOMAIN hfile.doc
    /\ DOMAIN hfile.doc["c2"] = {}
    /\ HasRecord(hfile.doc, "c1", 2)

\* C16: whatever json.load reads from the file during a load is a complete
\* document, the old one or the new one.
C16_LoadSeesCompleteDocument ==
    io.seen.len # NoVersion => io.seen.len = DocChunks

\* ------------------------------------------------------------ scorer claims
\* C19: the returned final_score lies in [0, 1].
C19_ScoreInUnitInterval ==
    signal.done => (signal.final_score >= 0 /\ signal.final_score <= Pow10(ScoreDigits))

\* C20: the returned recommendation is the ladder applied to the returned
\* final_score.
C20_RecommendationMatchesReturnedScore ==
    signal.done =>
        signal.recommendation = GetRecommendation(signal.final_score * Pow10(8 - ScoreDigits))

\* ------------------------------------------------------------ alert claims
\* C21: a zero-amount sizing of a market is logged once while its reason
\* stays the same.
C21_RejectionLoggedOnce ==
    \A m \in Markets : rejections[m].logs <= 1

\* ------------------------------------------------------ more blend claims
\* C22: no call of the blend ends in a division by zero.
C22_BlendNeverRaises == ~deb.raised

\* --------------------------------------------------------- orderbook claims
\* the depth of the side the trade takes, whatever the analysis says
RelevantDepth(in) ==
    IF IsBuy(in.trigger_side) THEN AssessLiquidity(in.orderbook.asks)
    ELSE AssessLiquidity(in.orderbook.bids)

\* C23: a book that is classed tradeable has a spread of at most 10 cents and
\* a depth of at least $50 on the side the trade takes.
C23_TradeableNeedsRelevantDepth ==
    (book.done /\ book.in.has_data /\ book.analysis.tradeable) =>
        (book.analysis.spread <= MaxSpread /\ RelevantDepth(book.in) >= MinDepth)

\* C24: an untradeable book has a confidence of at most 0.1 and the signal
\* NEUTRAL, whatever its imbalance.
C24_UntradeableLowConfidence ==
    (book.done /\ book.in.has_data /\ ~book.analysis.tradeable) =>
        (book.analysis.confidence <= 100000 /\ book.analysis.signal = "NEUTRAL"
         /\ AnalyzeOrderbook(book.in.orderbook) = book.analysis.confidence)

\* C24 witness: an untradeable book whose bids are three times its asks
C24_Witness ==
    /\ book.done
    /\ book.in.has_data
    /\ ~book.analysis.tradeable
    /\ book.analysis.confidence = 100000
    /\ book.in.orderbook.asks # <<>>
    /\ SizeSum(book.in.orderbook.bids) = 3 * SizeSum(book.in.orderbook.asks)

\* ------------------------------------------------------ volume share claims
\* the sizing of the drawn input with the discount left out
Undiscounted ==
    CalculatePositionSize(BasePosition(rel_volume.in.trig[1], rel_volume.in.trig[2],
                                       rel_volume.in.trig[3]),
                          DayDepth, rel_volume.in.hours, TRUE, Budget - daily_spent).amount

\* the option's volume is strictly less than 30% of the same-date volume
BelowShare == 10 * rel_volume.in.market_vol < 3 * rel_volume.in.total_daily_vol

\* C25: the x0.8 discount is applied exactly when the option's volume is
\* strictly less than 30% of the same-date volume; a share of exactly 30% or
\* more is passed to the sizer as high and is not discounted.
C25_DiscountBelowThirtyPercent ==
    rel_volume.done =>
        /\ decision.rel_high = ~BelowShare
        /\ decision.amount = IF BelowShare THEN (Undiscounted * 4) \div 5
                              ELSE Undiscounted

\* ------------------------------------------------------- lookback claims
\* the days of the history that are not today and have an actual
Eligible == {d \in DOMAIN deb.in.city_data :
                d # deb.in.today /\ deb.in.city_data[d].actual_high # None}

\* the up-to-7 most recent of them
MostRecentEligible ==
    {d \in Eligible : Cardinality({e \in Eligible : e > d}) < LookbackDays}

\* C26: the error samples of a blend come only from the up-to-7 most recent
\* days that are not today and have an actual; today's record and days without
\* an actual give no sample and do not count toward the 7, and the scan stops
\* after the 7th valid day.
C26_SamplesFromRecentValidDays ==
    (deb.path \notin {"pending", "equal_no_history", "no_models"}) =>
        /\ \A m \in DOMAIN deb.samples : deb.samples[m] \subseteq MostRecentEligible
        /\ \A m \in DOMAIN deb.samples :
              \A d \in MostRecentEligible :
                  deb.in.city_data[d].forecasts[m] # None => d \in deb.samples[m]
        /\ deb.days_used = Cardinality(MostRecentEligible)
        /\ deb.days_used <= LookbackDays
        /\ Cardinality(Eligible) > LookbackDays =>
              \A d \in deb.scanned : \E e \in MostRecentEligible : e <= d

\* C26 witness: today's record has an actual, a more recent day has none, and
\* more than 7 days are valid, so that the oldest valid day is left out
C26_Witness ==
    /\ deb.path = "weighted"
    /\ deb.in.today \in DOMAIN deb.in.city_data
    /\ deb.in.city_data[deb.in.today].actual_high # None
    /\ \E d \in DOMAIN deb.in.city_data :
          d > deb.in.today /\ deb.in.city_data[d].actual_high = None
    /\ deb.days_used = LookbackDays
    /\ Eligible \ deb.scanned # {}
    /\ \E m \in DOMAIN deb.samples : Cardinality(deb.samples[m]) = LookbackDays

\* the example of the specification, with A, B, C = ECMWF, GFS, ICON: current
\* forecasts 28.0, 30.0, 29.0 and 7-day MAE 1.0, 3.0, 2.0
ExampleForecasts == [ECMWF |-> 280, GFS |-> 300, ICON |-> 290]
ExampleMae == [ECMWF |-> 10, GFS |-> 30, ICON |-> 20]

IsExample ==
    /\ deb.path = "weighted"
    /\ deb.days_used = LookbackDays
    /\ deb.in.current_forecasts = ExampleForecasts
    /\ \A m \in Models :
          LET mae == Mae(deb.in.city_data, deb.in.today, m)
          IN  mae[1] = ExampleMae[m] * mae[2] /\ deb.samples[m] # {}

\* w is x hundredths to two decimal places
Approx(w, x) == Abs(w - x * Pow10(WeightDigits - 2)) <= 5 * Pow10(WeightDigits - 3)

\* C27 as stated: in the example the weights are about 0.47, 0.17, 0.36 and
\* the blended value is about 28.65.
C27_ExampleWeights ==
    IsExample =>
        /\ Approx(deb.weights["ECMWF"], 47)
        /\ Approx(deb.weights["GFS"], 17)
        /\ Approx(deb.weights["ICON"], 36)
        /\ Abs(10 * deb.blended_high - 2865) <= 5

\* C27 as amended: in the example the weights are about 0.53, 0.19, 0.28
\* and the blended value, returned to one decimal, is 28.7.
C27_ExampleWeightsAmended ==
    IsExample =>
        /\ Approx(deb.weights["ECMWF"], 53)
        /\ Approx(deb.weights["GFS"], 19)
        /\ Approx(deb.weights["ICON"], 28)
        /\ deb.blended_high = 287

\* C27 witness: the example has been blended
C27_Witness == IsExample /\ deb.weights["ECMWF"] > deb.weights["ICON"]

\* ------------------------------------------------------------ cycle claims
\* the step is a call of open_position
OpenStep == call'.op = "open_position" /\ (call' # call \/ ret' # ret \/ trades' # trades)

\* C28: every open_position call comes with a sizing of the same cycle: the
\* amount opened is the non-zero amount the sizer decided, and it is counted
\* among the amounts sized that day.
C28_OpenFollowsSizing ==
    [][OpenStep =>
         /\ decision'.amount > 0
         /\ call'.amount = decision'.amount
         /\ sized_today' = sized_today + call'.amount]_vars

\* ----------------------------------------------------------- status claims
\* C29: after every open_position and update_pnl call every entry of the
\* open positions has status OPEN, every entry of the history has status
\* CLOSED, and no position record is in both.
C29_OpenAndClosedApart ==
    /\ \A i \in 1 .. Len(positions) : positions[i].status = "OPEN"
    /\ \A i \in 1 .. Len(history) : history[i].status = "CLOSED"
    /\ \A i \in 1 .. Len(positions) : ~InSeq(positions[i], history)

\* C29 witness: a market and side whose earlier position was closed is open
\* again, and the call that returned is the open
C29_Witness ==
    /\ call.op = "open_position"
    /\ ret.success
    /\ \E i \in 1 .. Len(positions), j \in 1 .. Len(history) :
          /\ positions[i].market_id = history[j].market_id
          /\ positions[i].side = history[j].side
          /\ positions[i].opened_at > history[j].opened_at
          /\ history[j].closed_at # NoTime

\* ------------------------------------------------------ concurrency claims
\* C30: when two processes have each finished an upsert of a different key,
\* the persisted store holds both records, for every interleaving.
C30_BothRecordsPersisted ==
    (\A p \in Procs : race.proc[p].pc = "done") =>
        /\ race.disk.complete
        /\ \A p \in Procs : RaceKey[p] \in race.disk.doc

====
